---- MODULE Spec2Model ----
(***************************************************************************)
(* A model of uplog-rs: the client-side double buffer (uplog/src/buffer.rs)*)
(* the transport worker and logger facade (uplog/src/client.rs,            *)
(* uplog/src/logger.rs) and the collector's connection actors              *)
(* (tools/src/actor.rs) and session storage (tools/src/lib.rs).            *)
(*                                                                         *)
(* The specifications share the variables and the buffer operators:        *)
(*   SpecBuf  - the SwapBuffer API driven by arbitrary callers             *)
(*   SpecPipe - producers, the transport worker, the wire and the server   *)
(*   SpecInit - the process-global logger: init calls, log calls, flush    *)
(*   SpecSendFail - an initialized process on a network that fails a send  *)
(*   SpecRace - producer threads inside __log_api                          *)
(*   SpecMulti - the collector serving two connections                     *)
(*   SpecStore - session files on disk: Storage, Session, the reader       *)
(*   SpecCodec - the CBOR encoding of Value and Record (uplog/src/kv.rs)   *)
(*   SpecClock - the process-global session clock (uplog/src/session.rs)   *)
(*   SpecServe - one connection whose messages hold undecodable bytes      *)
(*   SpecShut  - the end of one connection and of its session writer       *)
(*   SpecIoFail - SpecShut on a file system whose writes may fail          *)
(*   SpecFrame - message sizes against the collector's frame limit         *)
(*   SpecLock  - producers and worker on the two Mutexes of a SwapBuffer   *)
(***************************************************************************)
EXTENDS Integers, Sequences, FiniteSets, TLC

(***************************************************************************)
(* Bounds of the model.                                                    *)
(***************************************************************************)
\* capacity handed to SwapBuffer::new (2 MiB by default, 1024 in the tests)
Capacity == 5
\* number of bytes the callers of SpecBuf offer to write() in total
MaxBytes == 6
\* a caller's destination slice is 1..MaxDst bytes long
MaxDst == Capacity + 1
\* the chunk length of the multi-thread test ("Nkmm Drawings\n" there)
ChunkLen == 2
\* producer threads of SpecPipe
NumProducers == 2
\* log calls made in one run of SpecPipe
MaxRecords == 3
\* a record's encoding is one header byte and 1..MaxPayload payload bytes
MaxPayload == 1
\* timeouts of the worker's recv_timeout in one run of SpecPipe
MaxTicks == 1
\* the tick period (Builder.swap_duration), in units of time
TickDuration == 1

Producers == 1..NumProducers

(***************************************************************************)
(* Helpers.                                                                *)
(***************************************************************************)
min(a, b) == IF a < b THEN a ELSE b

IsPrefix(s, t) == Len(s) <= Len(t) /\ SubSeq(t, 1, Len(s)) = s

RECURSIVE Flatten(_)
Flatten(ss) == IF ss = <<>> THEN <<>> ELSE Head(ss) \o Flatten(Tail(ss))

Range(s) == {s[i] : i \in 1..Len(s)}

(***************************************************************************)
(* State.                                                                  *)
(***************************************************************************)
VARIABLES
    \* ---- SwapBuffer (buffer.rs)
    wbuf,         \* SwapBufWriter.buf: the bytes 0..len of the write side
    rbuf,         \* SwapBufReader.buf
    read_cursor,  \* SwapBufReader.read_cursor
    \* ---- history of the buffer's callers
    stamp,        \* bytes offered so far; byte values are 1, 2, 3, ... in write order
    written,      \* every byte a successful write() appended, in order
    readLog,      \* every byte a read() returned, in order
    sinceSwap,    \* the bytes read() returned since the last swap()
    allChunks,    \* every write() so far was given exactly ChunkLen bytes
    afterSwap,    \* the reading thread's previous call was swap()
    last,         \* the last call: its arguments, the state before it, its result
    \* ---- the process-global logger (logger.rs) and the loggers built so far
    LOGGER,       \* static mut LOGGER: 0 is &NopLogger, k the k-th LogClient built
    HANDLE,       \* static mut HANDLE: 0 is None, k the k-th worker's JoinHandle
    inits,        \* the result of every init call so far, in call order
    clients,      \* k -> the k-th LogClient, its worker and its connection
    joining,      \* the worker flush() is blocked joining, 0 when not in flush()
    logged,       \* every record given to log so far, with the LOGGER of then
    SESSION,      \* session.rs static mut SESSION is Some
    \* ---- one LogClient, its producers and its worker (client.rs)
    poisoned,     \* the write side's Mutex is poisoned (a thread panicked holding it)
    prod,         \* producer thread -> "alive" | "panicked"
    submitted,    \* the records given to LogClient::log, in write-lock order
    chan,         \* number of () waiting in the finish channel
    flushed,      \* LogClient::flush has been called
    wpc,          \* where the worker is in WebsocketClient::run
    is_finaly,    \* run's local is_finaly
    read_buf,     \* run's local read_buf
    next_duration,\* run's local next_duration
    ticks,        \* timeouts of recv_timeout so far
    wire,         \* frames sent and not yet handled by the server, oldest first
    sent,         \* every frame the worker has sent, in order
    epochs,       \* the bytes written, split at the worker's swaps; the last is open
    lateWrite,    \* a byte was written after the first flush signal
    overflowed,   \* a write() returned Err
    \* ---- the collector's actors for that connection (actor.rs)
    storage_mb,   \* StorageActor's mailbox holds this connection's StorageRequest
    conn,         \* WsConn: "none" | "waiting" | "ready" | "stopped"
    session_addr, \* WsConn.session_addr is Some
    conn_mb,      \* WsConn's mailbox (StorageResponse messages)
    sess,         \* SessionActor: "none" | "running" | "stopped"
    sess_mb,      \* SessionActor's mailbox (SessionCommand messages)
    seqdata,      \* the bytes pushed to the session's seqdata file
    \* ---- producers racing through __log_api (lib.rs)
    now,          \* SESSION.instant.elapsed() if read at this moment
    rec_elapsed,  \* producer -> the elapsed field of the record it has built, or None
    lockOrder,    \* the elapsed fields of the records written, in write-lock order
    \* ---- the collector with several connections (main.rs, actor.rs)
    storage_inbox,\* StorageActor's mailbox: the StorageRequests not yet handled
    conns,        \* connection -> its WsConn, its mailbox and its incoming frames
    sessions,     \* directory name -> the SessionActor, its mailbox, the seqdata file
    \* ---- a storage root and the Sessions and the reader on it (tools/src)
    disk,         \* entry name -> what the storage root holds under that name
    handles,      \* the Session values created so far (writer.rs, lib.rs)
    reader,       \* a CBORSequenceReader (reader.rs)
    \* ---- a Value or a Record through serde_cbor (kv.rs, lib.rs)
    cin,          \* what is given to serde_cbor::to_vec
    cbytes,       \* the CBOR data items to_vec produced, <<>> before the call
    cout,         \* what the deserializer returned for cbytes
    \* ---- the session clock and the threads that use it (session.rs)
    INIT,         \* static INIT: Once: "incomplete" | "running" | "complete"
    info,         \* the SesstionInfo in SESSION: start_at and instant
    wall,         \* what Utc::now() returns at this moment
    thread,       \* thread -> "idle" | "closure" | "written" | "blocked" | "panicked"
    seen,         \* what the calls so far did and returned
    \* ---- message sizes between a configured client and the collector
    swap_buffer_size, \* Builder.swap_buffer_size of the client
    pending,      \* bytes on the write side of the client's SwapBuffer
    on_wire,      \* the lengths of the binary messages on the way
    outcomes,     \* what the collector's codec made of the messages it got
    \* ---- the two Mutexes of a SwapBuffer and the threads that lock them
    write_lock,   \* the thread that holds SwapBuffer.write, 0 when it is free
    read_lock,    \* the thread that holds SwapBuffer.read, 0 when it is free
    write_poisoned, \* a thread panicked while it held SwapBuffer.write
    lpc,          \* thread -> where it is in log() or in the worker's loop
    fill,         \* the bytes on the write side
    calls,        \* log calls started
    rounds        \* iterations the worker started

bufVars == <<wbuf, rbuf, read_cursor>>
histVars == <<stamp, written, readLog, sinceSwap, allChunks, afterSwap, last>>
initVars == <<LOGGER, HANDLE, inits, clients, joining, logged, SESSION>>
clientVars == <<poisoned, prod, submitted, chan, flushed, wpc, is_finaly, read_buf,
                next_duration, ticks, wire, sent, epochs, lateWrite, overflowed>>
serverVars == <<storage_mb, conn, session_addr, conn_mb, sess, sess_mb, seqdata>>
raceVars == <<now, rec_elapsed, lockOrder>>
multiVars == <<storage_inbox, conns, sessions>>
storeVars == <<disk, handles, reader>>
codecVars == <<cin, cbytes, cout>>
clockVars == <<INIT, info, wall, thread, seen>>
frameVars == <<swap_buffer_size, pending, on_wire, outcomes>>
lockVars == <<write_lock, read_lock, write_poisoned, lpc, fill, calls, rounds>>
extraVars == <<storeVars, codecVars, clockVars, frameVars, lockVars>>
vars == <<bufVars, histVars, initVars, clientVars, serverVars, raceVars, multiVars,
          extraVars>>

\* what the steps of each specification leave alone
outsideBuf == <<initVars, clientVars, serverVars, raceVars, multiVars, extraVars>>
outsideInit == <<bufVars, stamp, written, readLog, sinceSwap, allChunks, afterSwap,
                 clientVars, serverVars, raceVars, multiVars, extraVars>>
outsidePipe == <<initVars, stamp, readLog, sinceSwap, allChunks, afterSwap, last,
                 raceVars, multiVars, extraVars>>
outsideRace == <<bufVars, histVars, initVars, clientVars, serverVars, multiVars,
                 extraVars>>
outsideMulti == <<bufVars, histVars, initVars, clientVars, serverVars, raceVars,
                  extraVars>>
outsideStore == <<bufVars, stamp, written, readLog, sinceSwap, allChunks, afterSwap,
                  initVars, clientVars, serverVars, raceVars, multiVars, codecVars,
                  clockVars, frameVars, lockVars>>
outsideCodec == <<bufVars, histVars, initVars, clientVars, serverVars, raceVars,
                  multiVars, storeVars, clockVars, frameVars, lockVars>>
outsideClock == <<bufVars, histVars, LOGGER, HANDLE, inits, clients, joining, logged,
                  clientVars, serverVars, rec_elapsed, lockOrder, multiVars,
                  storeVars, codecVars, frameVars, lockVars>>
outsideFrame == <<bufVars, histVars, initVars, clientVars, serverVars, raceVars,
                  multiVars, storeVars, codecVars, clockVars, lockVars>>
outsideLock == <<bufVars, histVars, initVars, clientVars, serverVars, raceVars,
                 multiVars, storeVars, codecVars, clockVars, frameVars>>

(***************************************************************************)
(* buffer.rs as operators.  A Vec<u8> is the sequence of its len() bytes;  *)
(* Vec::with_capacity(capacity) gives capacity() = capacity for u8.        *)
(***************************************************************************)
\* SwapBufReader::residual_length_read
residual_length_read(buf, cursor) == Len(buf) - cursor

\* mutant: the cursor is not advanced after the copy
read_from_buffer_no_advance(buf, cursor, dstLen) ==
    LET buf_len == min(residual_length_read(buf, cursor), dstLen)
    IN  [n |-> buf_len,
         data |-> SubSeq(buf, cursor + 1, cursor + buf_len),
         cursor |-> cursor]

\* SwapBufReader::read_from_buffer_unchecked: copy min(residual, dst.len())
\* bytes from the cursor on, advance the cursor
read_from_buffer_unchecked(buf, cursor, dstLen) ==
    LET buf_len == min(residual_length_read(buf, cursor), dstLen)
    IN  [n |-> buf_len,
         data |-> SubSeq(buf, cursor + 1, cursor + buf_len),
         cursor |-> cursor + buf_len]

\* impl Read for SwapBufReader: Ok(0) when nothing is left
read(buf, cursor, dstLen) ==
    IF residual_length_read(buf, cursor) < 1
    THEN [n |-> 0, data |-> <<>>, cursor |-> cursor]
    ELSE read_from_buffer_unchecked(buf, cursor, dstLen)

\* SwapBufWriter::spare_capacity_write
spare_capacity_write(buf) == Capacity - Len(buf)

\* SwapBufWriter::write_to_buffer_unchecked: copy to buf[old_len..], set_len
write_to_buffer_unchecked(buf, b) == buf \o b

\* mutant: the capacity test is >= instead of >
write_off_by_one(buf, b) ==
    IF Len(b) >= spare_capacity_write(buf)
    THEN [ok |-> FALSE, n |-> 0, buf |-> buf]
    ELSE [ok |-> TRUE, n |-> Len(b), buf |-> write_to_buffer_unchecked(buf, b)]

\* mutant: a write that does not fit copies the part that does
write_partial(buf, b) ==
    LET k == min(Len(b), spare_capacity_write(buf))
    IN  [ok |-> TRUE, n |-> k, buf |-> write_to_buffer_unchecked(buf, SubSeq(b, 1, k))]

\* impl Write for SwapBufWriter: Err(OutOfMemory) when b does not fit
write(buf, b) ==
    IF Len(b) > spare_capacity_write(buf)
    THEN [ok |-> FALSE, n |-> 0, buf |-> buf]
    ELSE [ok |-> TRUE, n |-> Len(b), buf |-> write_to_buffer_unchecked(buf, b)]

\* mutant: the read cursor survives the swap
reader_swap_reset_keep(cursor) == cursor

\* SwapBufReader::swap_reset
reader_swap_reset(cursor) == 0

\* SwapBufWriter::swap_reset: set_len(0)
writer_swap_reset(buf) == SubSeq(buf, 1, 0)

\* SwapBuffer::swap: exchange the two Vecs under both locks, reset both sides,
\* return the read side's length
swap(wb, rb, cursor) ==
    LET new_rb == wb
        new_wb == rb
    IN  [rbuf |-> new_rb,
         cursor |-> reader_swap_reset(cursor),
         wbuf |-> writer_swap_reset(new_wb),
         ret |-> Len(new_rb)]

(***************************************************************************)
(* SpecBuf: any thread may call write, read and swap; each call holds the  *)
(* lock(s) of the side(s) it touches for its whole duration, so each is    *)
(* one step.                                                               *)
(***************************************************************************)
NoCall == [op |-> "none"]

InitBuffer ==
    /\ wbuf = <<>>
    /\ rbuf = <<>>
    /\ read_cursor = 0

InitHist ==
    /\ stamp = 0
    /\ written = <<>>
    /\ readLog = <<>>
    /\ sinceSwap = <<>>
    /\ allChunks = TRUE
    /\ afterSwap = FALSE
    /\ last = NoCall

\* logger.rs:29-30: LOGGER = &NopLogger, HANDLE = Cell::new(None)
InitLogger ==
    /\ LOGGER = 0
    /\ HANDLE = 0
    /\ inits = <<>>
    /\ clients = <<>>
    /\ joining = 0
    /\ logged = <<>>

\* session.rs:7 static mut SESSION: Option<SesstionInfo> = None
InitSession == SESSION = FALSE

\* LogClient::new (client.rs:232-253) has run; the worker thread has not yet
\* connected
InitClient ==
    /\ poisoned = FALSE
    /\ prod = [p \in Producers |-> "alive"]
    /\ submitted = <<>>
    /\ chan = 0
    /\ flushed = FALSE
    /\ wpc = "connect"
    /\ is_finaly = FALSE
    /\ read_buf = <<>>
    /\ next_duration = TickDuration
    /\ ticks = 0
    /\ wire = <<>>
    /\ sent = <<>>
    /\ epochs = << <<>> >>
    /\ lateWrite = FALSE
    /\ overflowed = FALSE

\* the collector is listening; no connection yet
InitServer ==
    /\ storage_mb = FALSE
    /\ conn = "none"
    /\ session_addr = FALSE
    /\ conn_mb = <<>>
    /\ sess = "none"
    /\ sess_mb = <<>>
    /\ seqdata = <<>>

None == 0 - 1

\* no producer is inside __log_api
InitProducers ==
    /\ now = 0
    /\ rec_elapsed = [p \in Producers |-> None]
    /\ lockOrder = <<>>

\* the connections the collector can have at a time
Conns == {1, 2}
\* the values Uuid::new_v4() can return
Uuids == 1..3

\* requests, answer, early, dropped and whole record the history of the
\* connection: the StorageRequests its WsConn sent, the StorageResponse it
\* handled, the records its client sent before that, the records it decoded
\* and could not dispatch, the records its client sent whole, the shapes of
\* the messages of several records its client sent
NoConn == [state |-> "none", id |-> 0, session_addr |-> 0, mb |-> <<>>,
           stream |-> <<>>, sentn |-> 0, fin |-> FALSE,
           requests |-> 0, answer |-> "none", early |-> 0, dropped |-> 0,
           whole |-> <<>>, msgs |-> <<>>]
\* writers counts the live Session values (open seqdata writers) of the directory
\* failed counts the pushes of the session that returned Err, after_fail the
\* pushes that succeeded after one of them
NoSession == [state |-> "none", mb |-> <<>>, file |-> <<>>, writers |-> 0,
              failed |-> 0, after_fail |-> 0]

\* the collector is listening: no connection, no session directory
InitCollector ==
    /\ storage_inbox = <<>>
    /\ conns = [c \in Conns |-> NoConn]
    /\ sessions = [u \in Uuids |-> NoSession]

\* Session values one run creates
MaxSessions == 2
\* the names given to create_session
Names == 1..2
SessionIds == 1..MaxSessions

\* an entry of the storage root: nothing, a plain file, or a directory that
\* has a seqdata file (has) with the bytes seq
Absent == [kind |-> "absent", has |-> FALSE, seq |-> <<>>]
PlainFile == [kind |-> "file", has |-> FALSE, seq |-> <<>>]
\* a Session: its directory, the file offset of its File, the contents of
\* its BufWriter; pushed, fresh and alone record its history
NoHandle == [state |-> "none", dir |-> 0, pos |-> 0, buf |-> <<>>, pushed |-> <<>>,
             fresh |-> FALSE, alone |-> FALSE]
NoReader == [open |-> FALSE, dir |-> 0, pos |-> 0]

\* no storage root is in use
InitStorage ==
    /\ disk = [n \in Names |-> Absent]
    /\ handles = [w \in SessionIds |-> NoHandle]
    /\ reader = NoReader

\* a value of kv.rs Value: the variant and what it holds
Null == [v |-> "Null"]

\* the result of a deserializer: the value and the data items left over
NotDecoded == [done |-> FALSE, ok |-> FALSE, val |-> 0, rest |-> <<>>]

\* nothing is being encoded
InitCodec ==
    /\ cin = [kind |-> "value", x |-> Null]
    /\ cbytes = <<>>
    /\ cout = NotDecoded

\* SESSION is None
NoInfo == [start_at |-> None, instant |-> None]
\* no call was made: the calls of session_init, those that had to wait, the
\* closure runs, the first SesstionInfo written, the values start_at() and
\* elapsed() returned once the initialization was complete, the reads made
\* while it ran
NoSeen == [inits |-> 0, waited |-> 0, runs |-> 0, fixed |-> NoInfo,
           start_ats |-> <<>>, elapseds |-> <<>>, racy |-> 0]

\* session.rs:8-9: INIT is Once::new(), no thread is in session.rs
InitClock ==
    /\ INIT = "incomplete"
    /\ info = NoInfo
    /\ wall = 0
    /\ thread = [t \in Producers |-> "idle"]
    /\ seen = NoSeen

\* client.rs:23 DEFAULT_BUFFER_SIZE is 2 MiB; sizes are counted in MiB
DEFAULT_BUFFER_SIZE == 2

\* client.rs:219 Builder::default: swap_buffer_size is DEFAULT_BUFFER_SIZE;
\* nothing is written or sent
InitFrame ==
    /\ swap_buffer_size = DEFAULT_BUFFER_SIZE
    /\ pending = 0
    /\ on_wire = <<>>
    /\ outcomes = <<>>

\* the transport worker's thread
Worker == NumProducers + 1
Threads == Producers \cup {Worker}

\* SwapBuffer::new: both Mutexes are free, nothing is written; the
\* producers are outside log(), the worker waits for its first tick
InitLock ==
    /\ write_lock = 0
    /\ read_lock = 0
    /\ write_poisoned = FALSE
    /\ lpc = [t \in Threads |-> IF t = Worker THEN "recv" ELSE "idle"]
    /\ fill = 0
    /\ calls = 0
    /\ rounds = 0

InitExtra == InitStorage /\ InitCodec /\ InitClock /\ InitFrame /\ InitLock

InitBuf ==
    /\ InitBuffer /\ InitHist /\ InitLogger /\ InitSession /\ InitClient /\ InitServer
    /\ InitProducers /\ InitCollector /\ InitExtra

\* writer.lock().unwrap().write(b)
WriteOp ==
    \E len \in 0..(Capacity + 1) :
        /\ stamp + len <= MaxBytes
        /\ LET b == [i \in 1..len |-> stamp + i]
               res == write(wbuf, b)
           IN  /\ wbuf' = res.buf
               /\ stamp' = IF res.ok THEN stamp + len ELSE stamp
               /\ written' = IF res.ok THEN written \o b ELSE written
               /\ allChunks' = (allChunks /\ len = ChunkLen)
               /\ last' = [op |-> "write", arg |-> b, ok |-> res.ok, n |-> res.n,
                           pre_w |-> wbuf]
        /\ UNCHANGED <<rbuf, read_cursor, readLog, sinceSwap, afterSwap>>
        /\ UNCHANGED outsideBuf

\* reader.lock().unwrap().read(&mut dst); dst is not empty (debug_assert)
ReadOp ==
    \E dstLen \in 1..MaxDst :
        LET res == read(rbuf, read_cursor, dstLen)
        IN  /\ read_cursor' = res.cursor
            /\ readLog' = readLog \o res.data
            /\ sinceSwap' = sinceSwap \o res.data
            /\ afterSwap' = FALSE
            /\ last' = [op |-> "read", dst |-> dstLen, n |-> res.n, data |-> res.data,
                        pre_r |-> rbuf, pre_c |-> read_cursor, first |-> afterSwap]
            /\ UNCHANGED <<wbuf, rbuf, stamp, written, allChunks>>
            /\ UNCHANGED outsideBuf

\* swbuf.swap()
SwapOp ==
    LET res == swap(wbuf, rbuf, read_cursor)
    IN  /\ wbuf' = res.wbuf
        /\ rbuf' = res.rbuf
        /\ read_cursor' = res.cursor
        /\ sinceSwap' = <<>>
        /\ afterSwap' = TRUE
        /\ last' = [op |-> "swap", ret |-> res.ret, pre_w |-> wbuf, pre_r |-> rbuf,
                    pre_c |-> read_cursor]
        /\ UNCHANGED <<stamp, written, readLog, allChunks>>
        /\ UNCHANGED outsideBuf

NextBuf == WriteOp \/ ReadOp \/ SwapOp

SpecBuf == InitBuf /\ [][NextBuf]_vars

(***************************************************************************)
(* Claims on SpecBuf.                                                      *)
(***************************************************************************)
\* C1: for any sequence of write, read and swap calls, the bytes returned by
\* read so far are the successfully written bytes in order, none missing and
\* none repeated (swap loses no written byte and re-exposes no read byte).
C1_ReadLogIsPrefixOfWritten == IsPrefix(readLog, written)

\* C4: write(b) on a write side holding n bytes succeeds and appends all of b
\* iff Len(b) <= Capacity - n; otherwise it fails and leaves the write side
\* unchanged.
C4_WriteAllOrNothing ==
    last.op = "write" =>
        LET fits == Len(last.arg) <= Capacity - Len(last.pre_w)
        IN  /\ last.ok <=> fits
            /\ fits => wbuf = last.pre_w \o last.arg /\ last.n = Len(last.arg)
            /\ ~fits => wbuf = last.pre_w
            /\ (last.pre_w = <<>> /\ Len(last.arg) = Capacity) => last.ok
            /\ (last.pre_w = <<>> /\ Len(last.arg) = Capacity + 1) => ~last.ok

\* a write that is refused on a partly filled write side although it would
\* have fitted an empty one
C4_Witness ==
    /\ last.op = "write"
    /\ ~last.ok
    /\ last.pre_w # <<>>
    /\ Len(last.arg) <= Capacity

\* C5: right after swap() the read side holds what the write side held, the
\* cursor is zero, the write side is empty with its whole capacity spare and
\* the returned value is the number of readable bytes.
C5_SwapPostcondition ==
    last.op = "swap" =>
        /\ rbuf = last.pre_w
        /\ read_cursor = 0
        /\ wbuf = <<>>
        /\ spare_capacity_write(wbuf) = Capacity
        /\ last.ret = residual_length_read(rbuf, read_cursor)

\* a swap of a non-empty write side against a partly read read side
C5_Witness ==
    /\ last.op = "swap"
    /\ Len(last.pre_w) >= 2
    /\ last.pre_c > 0
    /\ last.pre_c < Len(last.pre_r)

\* C6: no byte that is in the write side (written since the last swap) has
\* been returned by read; and when every write is a whole ChunkLen-byte chunk,
\* a read into a destination of at least Capacity bytes that directly follows
\* the reading thread's swap returns 0 or a multiple of ChunkLen bytes.
C6_ReaderSeesOnlySwappedWholeChunks ==
    /\ Range(wbuf) \cap Range(readLog) = {}
    /\ (last.op = "read" /\ allChunks /\ last.first /\ last.dst >= Capacity)
          => last.n % ChunkLen = 0

\* such a read returns two chunks while the writer has put a third chunk in
\* the write side between the swap and the read
C6_Witness ==
    /\ last.op = "read"
    /\ allChunks
    /\ last.first
    /\ last.dst >= Capacity
    /\ last.n = 2 * ChunkLen
    /\ Len(wbuf) = ChunkLen

MaxInits == 3
\* log calls made in one run
MaxLogs == 3

InitFns == {"try_init", "try_init_with_host", "try_init_with_builder"}

\* LogClient::new: an empty buffer, an empty close channel, a running worker
\* that has connected
NewClient == [buf |-> <<>>, chan |-> 0, worker |-> "running", conn |-> <<>>,
              closed |-> FALSE, senderr |-> FALSE]

\* logger.rs set_therad_handle: Err when HANDLE is Some, else store the handle
set_therad_handle(handle, k) ==
    IF handle # 0
    THEN [ok |-> FALSE, HANDLE |-> handle]
    ELSE [ok |-> TRUE, HANDLE |-> k]

\* mutant: the logger is installed before the handle is tested
set_boxed_logger_install_first(logger, handle, k) ==
    LET h == set_therad_handle(handle, k)
    IN  [ok |-> h.ok, LOGGER |-> k, HANDLE |-> h.HANDLE]

\* logger.rs set_boxed_logger: set_therad_handle(handle)? and only then
\* set_logger_inner (LOGGER = Box::leak(logger))
set_boxed_logger(logger, handle, k) ==
    LET h == set_therad_handle(handle, k)
    IN  IF ~h.ok
        THEN [ok |-> FALSE, LOGGER |-> logger, HANDLE |-> h.HANDLE]
        ELSE [ok |-> TRUE, LOGGER |-> k, HANDLE |-> h.HANDLE]

\* Drop for LogClient / LogClient::flush: close.send(()).ok(); the send
\* fails, and is ignored, once the worker has dropped the receiver
send_close(c) ==
    IF c.worker = "running" THEN [c EXCEPT !.chan = @ + 1] ELSE c

\* session.rs session_init (also init_noop and devinit!): INIT.call_once
\* sets SESSION on the first call only
session_init(session) == TRUE

\* session.rs elapsed: SESSION.as_ref().unwrap().instant.elapsed() panics
\* while SESSION is None
elapsed(session) == [panics |-> ~session]

\* a direct call of session_init, init_noop or devinit!
SessionInit ==
    /\ joining = 0
    /\ SESSION' = session_init(SESSION)
    /\ UNCHANGED <<LOGGER, HANDLE, inits, clients, joining, logged, last>>
    /\ UNCHANGED outsideInit

\* try_init / try_init_with_host / try_init_with_builder: build the client
\* (LogClient::new calls session_init) and its worker, then
\* set_boxed_logger(..)?; on Err the new LogClient is dropped, which signals
\* its own worker
TryInit ==
    \E fn \in InitFns :
        /\ joining = 0
        /\ Len(inits) < MaxInits
        /\ LET k == Len(clients) + 1
               res == set_boxed_logger(LOGGER, HANDLE, k)
               built == Append(clients, NewClient)
           IN  /\ LOGGER' = res.LOGGER
               /\ HANDLE' = res.HANDLE
               /\ clients' = IF res.ok THEN built
                             ELSE [built EXCEPT ![k] = send_close(@)]
               /\ inits' = Append(inits, IF res.ok THEN "Ok" ELSE "Err")
               /\ last' = [op |-> "init", fn |-> fn, ok |-> res.ok, k |-> k,
                           pre_L |-> LOGGER, pre_H |-> HANDLE]
        /\ SESSION' = session_init(SESSION)
        /\ UNCHANGED <<joining, logged>>
        /\ UNCHANGED outsideInit

\* __log_api: the record is built first, which calls session::elapsed(),
\* then logger().log(record); NopLogger::log does nothing, LogClient::log
\* encodes the record into its write side
Log ==
    /\ Len(logged) < MaxLogs
    /\ LET r == Len(logged) + 1
           afterFail == last.op = "init" /\ ~last.ok
           e == elapsed(SESSION)
       IN  /\ clients' = IF LOGGER = 0 \/ e.panics THEN clients
                         ELSE [clients EXCEPT ![LOGGER].buf = Append(@, r)]
           /\ logged' = IF e.panics THEN logged
                        ELSE Append(logged, [rec |-> r, to |-> LOGGER,
                                             afterFail |-> afterFail])
           /\ last' = [op |-> "log", rec |-> r, to |-> LOGGER, afterFail |-> afterFail,
                       prev_L |-> IF afterFail THEN last.pre_L ELSE LOGGER,
                       panicked |-> e.panics, pre_S |-> SESSION,
                       pre_H |-> HANDLE, pre_inits |-> inits]
    /\ UNCHANGED <<LOGGER, HANDLE, inits, joining, SESSION>>
    /\ UNCHANGED outsideInit

\* mutant: the handle is read and left in HANDLE
handle_peek(h) == [taken |-> h, left |-> h]

\* logger.rs:85 glocal_handle.take(): the handle moves out, HANDLE is None
handle_take(h) == [taken |-> h, left |-> 0]

\* logger.rs flush, up to the join: LOGGER.flush(), HANDLE.take(); with no
\* handle to join it returns at once
FlushCall ==
    /\ joining = 0
    /\ clients' = IF LOGGER = 0 THEN clients
                  ELSE [clients EXCEPT ![LOGGER] = send_close(@)]
    /\ HANDLE' = handle_take(HANDLE).left
    /\ joining' = handle_take(HANDLE).taken
    /\ last' = [op |-> "flush", pre_L |-> LOGGER, pre_H |-> HANDLE,
                pre_clients |-> clients,
                again |-> (last.op = "joined" \/ last.op = "flush")]
    /\ UNCHANGED <<LOGGER, inits, logged, SESSION>>
    /\ UNCHANGED outsideInit

\* logger.rs flush: x.join().ok() returns once the worker has ended
FlushJoin ==
    /\ joining # 0
    /\ clients[joining].worker # "running"
    /\ joining' = 0
    /\ last' = [op |-> "joined", k |-> joining]
    /\ UNCHANGED <<LOGGER, HANDLE, inits, clients, logged, SESSION>>
    /\ UNCHANGED outsideInit

\* one iteration of WebsocketClient::run for the k-th client: recv_timeout,
\* swap, drain, send; then close and leave if the signal was there, else
\* compute tick_duration - start.elapsed(), which panics when the iteration
\* took longer than the tick
InitWorkerTick(k) ==
    /\ clients[k].worker = "running"
    /\ LET c == clients[k]
           final == c.chan > 0
           delivered == [c EXCEPT !.conn = @ \o c.buf, !.buf = <<>>]
       IN  \E overrun \in BOOLEAN :
              clients' = [clients EXCEPT ![k] =
                  IF final
                  THEN [delivered EXCEPT !.chan = @ - 1, !.closed = TRUE, !.worker = "exited"]
                  ELSE IF overrun THEN [delivered EXCEPT !.worker = "panicked"]
                  ELSE delivered]
    /\ UNCHANGED <<LOGGER, HANDLE, inits, joining, logged, last, SESSION>>
    /\ UNCHANGED outsideInit

InitWorkerTicks == \E k \in 1..Len(clients) : InitWorkerTick(k)

InitInit ==
    /\ InitBuffer /\ InitHist /\ InitLogger /\ InitSession /\ InitClient /\ InitServer
    /\ InitProducers /\ InitCollector /\ InitExtra

NextInit ==
    \/ SessionInit
    \/ TryInit
    \/ Log
    \/ FlushCall
    \/ FlushJoin
    \/ InitWorkerTicks

SpecInit == InitInit /\ [][NextInit]_vars

(***************************************************************************)
(* Claims on SpecInit.                                                     *)
(***************************************************************************)
\* C9: in any sequence of init, log and flush calls at most one init call
\* returns success; every other one, also one made after flush(), fails.
C9_AtMostOneInitSucceeds ==
    Cardinality({i \in 1..Len(inits) : inits[i] = "Ok"}) <= 1

\* C10: an init call that fails leaves LOGGER and HANDLE as they were, both
\* naming the installed client (the first one when it is the second call that
\* fails); a record logged after the failed call goes to that client's buffer
\* and is found only in that client's buffer or on its connection.
C10_FailedInitKeepsInstalledLogger ==
    /\ (last.op = "init" /\ ~last.ok) =>
          /\ LOGGER = last.pre_L
          /\ HANDLE = last.pre_H
          /\ LOGGER # 0
          /\ HANDLE = LOGGER
          /\ Len(inits) = 2 => (LOGGER = 1 /\ HANDLE = 1)
    /\ (last.op = "log" /\ last.afterFail) =>
          /\ last.to = last.prev_L
          /\ last.to = LOGGER
    /\ \A i \in 1..Len(logged) : \A k \in 1..Len(clients) :
          logged[i].afterFail =>
              (logged[i].rec \in Range(clients[k].buf) \cup Range(clients[k].conn)
                  <=> k = logged[i].to)

\* the second init call failed and a record logged after it has been sent
\* over the first client's connection
C10_Witness ==
    /\ Len(inits) >= 2
    /\ inits[1] = "Ok"
    /\ inits[2] = "Err"
    /\ \E i \in 1..Len(logged) :
          /\ logged[i].afterFail
          /\ logged[i].to = 1
          /\ logged[i].rec \in Range(clients[1].conn)

\* C11: a log call made before any initialization (no init call, no
\* session_init) returns normally and changes nothing
C11_LogBeforeInitIsSafe ==
    (last.op = "log" /\ ~last.pre_S /\ last.pre_inits = <<>>) =>
        /\ ~last.panicked
        /\ logged = <<>>
        /\ LOGGER = 0

(***************************************************************************)
(* SpecSendFail: a process whose try_init() has succeeded, on a network    *)
(* that can fail a send.                                                   *)
(***************************************************************************)
\* mutant: the worker ignores the error and goes on with its loop
send_failed_goes_on(c) == [c EXCEPT !.buf = <<>>, !.senderr = TRUE]

\* client.rs:115-117 write_message(..).unwrap() on Err: the bytes swapped out
\* are gone, the worker thread panics and drops its receiver and its socket
send_failed(c) ==
    [c EXCEPT !.buf = <<>>, !.senderr = TRUE, !.worker = "failed", !.chan = 0]

\* an iteration of the k-th worker whose write_message returns Err
InitWorkerSendFails(k) ==
    /\ clients[k].worker = "running"
    /\ clients' = [clients EXCEPT ![k] = send_failed(@)]
    /\ UNCHANGED <<LOGGER, HANDLE, inits, joining, logged, last, SESSION>>
    /\ UNCHANGED outsideInit

WorkerSendFails == \E k \in 1..Len(clients) : InitWorkerSendFails(k)

\* try_init() has returned Ok: the first client is built and installed
InitSendFail ==
    /\ InitBuffer /\ InitClient /\ InitServer /\ InitProducers /\ InitCollector /\ InitExtra
    /\ stamp = 0 /\ written = <<>> /\ readLog = <<>> /\ sinceSwap = <<>>
    /\ allChunks = TRUE /\ afterSwap = FALSE
    /\ LOGGER = set_boxed_logger(0, 0, 1).LOGGER
    /\ HANDLE = set_boxed_logger(0, 0, 1).HANDLE
    /\ inits = <<"Ok">>
    /\ clients = <<NewClient>>
    /\ joining = 0
    /\ logged = <<>>
    /\ SESSION = session_init(FALSE)
    /\ last = [op |-> "init", fn |-> "try_init", ok |-> TRUE, k |-> 1,
               pre_L |-> 0, pre_H |-> 0]

NextSendFail ==
    \/ Log
    \/ FlushCall
    \/ FlushJoin
    \/ InitWorkerTicks
    \/ WorkerSendFails

\* the worker thread takes a step of its loop
WorkerStep == InitWorkerTicks \/ WorkerSendFails

\* every thread that can run is scheduled again and again: the worker, and
\* the application thread when its join can return
SpecSendFail ==
    /\ InitSendFail
    /\ [][NextSendFail]_vars
    /\ WF_vars(WorkerStep)
    /\ WF_vars(FlushJoin)

\* C18: after a failed send the worker does no further swap, send or close;
\* no caller of log panics because of it and every record logged to that
\* client afterwards is appended to its write side; every flush() returns
C18_WorkerStaysDown ==
    \A k \in 1..Len(clients) :
        clients[k].senderr =>
            /\ clients[k].worker = "failed"
            /\ clients'[k].worker = "failed"
            /\ clients'[k].conn = clients[k].conn
            /\ clients'[k].closed = clients[k].closed
            /\ IsPrefix(clients[k].buf, clients'[k].buf)

C18_LogStillAppends ==
    (LOGGER # 0 /\ clients[LOGGER].senderr /\ last' # last /\ last'.op = "log") =>
        /\ ~last'.panicked
        /\ clients'[LOGGER].buf = Append(clients[LOGGER].buf, last'.rec)

C18_SendFailureKillsOnlyWorker ==
    /\ [][C18_WorkerStaysDown /\ C18_LogStillAppends]_vars
    /\ ((joining # 0) ~> (joining = 0))

\* the installed client's send has failed, records logged after that are in
\* its write side, and a flush() called after that has returned
C18_Witness ==
    /\ last.op = "joined"
    /\ last.k = LOGGER
    /\ clients[LOGGER].senderr
    /\ Len(clients[LOGGER].buf) >= 2
    /\ joining = 0

\* C16: when flush() returns after a join, the worker of the installed
\* logger has ended; a flush() called right after a flush() has returned does
\* not block and leaves the globals and the installed client, its
\* connection included, as they were; a worker that finds the signal when it
\* waits does its final iteration and leaves, it never runs a timed-out one
C16_InstalledEnded ==
    /\ last.op = "joined" =>
          (last.k = LOGGER /\ clients[last.k].worker # "running" /\ HANDLE = 0)
    /\ (last.op = "flush" /\ last.again) =>
          /\ joining = 0
          /\ HANDLE = last.pre_H
          /\ LOGGER = last.pre_L
          /\ LOGGER # 0 =>
                (clients[LOGGER] = last.pre_clients[LOGGER]
                    /\ clients[LOGGER].worker # "running")

C16_SignalEndsWait ==
    \A k \in 1..Len(clients) :
        (clients[k].worker = "running" /\ clients[k].chan > 0
            /\ clients'[k].worker # "running")
        => (clients'[k].worker = "exited" /\ clients'[k].closed)

C16_FlushIdempotentAndJoins == []C16_InstalledEnded /\ [][C16_SignalEndsWait]_vars

\* flush() has been called a second time after the first one joined a worker
\* that sent its records and the close frame
C16_Witness ==
    /\ last.op = "flush"
    /\ last.again
    /\ LOGGER # 0
    /\ clients[LOGGER].closed
    /\ clients[LOGGER].conn # <<>>

(***************************************************************************)
(* SpecPipe: one LogClient with its producers and its transport worker,    *)
(* the frames on the wire, and the collector's actors for the connection.  *)
(* Network and file operations succeed here (their Results are Ok); no     *)
(* assumption is made on how long anything takes.                          *)
(*                                                                         *)
(* A record is [id, n]: serde_cbor writes it through several write calls,  *)
(* here a header byte -n and then n payload bytes id; the decoder is       *)
(* length-driven.                                                          *)
(***************************************************************************)
MaxElapsed == TickDuration + 1

\* the successive write_all calls serde_cbor::to_writer makes for a record
EncPieces(r) == << <<0 - r.n>>, [i \in 1..r.n |-> r.id] >>

Enc(r) == Flatten(EncPieces(r))

\* serde_cbor::to_writer(writer, record): write the pieces in turn, stop at
\* the first Err; what was written before stays in the buffer
RECURSIVE to_writer(_, _)
to_writer(buf, pieces) ==
    IF pieces = <<>> THEN [ok |-> TRUE, buf |-> buf]
    ELSE LET w == write(buf, Head(pieces))
         IN  IF ~w.ok THEN [ok |-> FALSE, buf |-> w.buf]
             ELSE to_writer(w.buf, Tail(pieces))

\* the error item of the iterator
FormatError == [ok |-> FALSE, rec |-> [id |-> 0, n |-> 0]]

\* mutant: the iterator ends with its first error item
RECURSIVE Decode_until_error(_)
Decode_until_error(bytes) ==
    IF bytes = <<>> THEN <<>>
    ELSE LET n == 0 - Head(bytes)
         IN  IF /\ n >= 1
                /\ Len(bytes) >= n + 1
                /\ bytes[2] > 0
                /\ \A i \in 2..(n + 1) : bytes[i] = bytes[2]
             THEN <<[ok |-> TRUE, rec |-> [id |-> bytes[2], n |-> n]]>>
                      \o Decode_until_error(SubSeq(bytes, n + 2, Len(bytes)))
             ELSE <<FormatError>>

\* serde_cbor::Deserializer::from_slice(bin).into_iter::<Record>() as the
\* for loop of actor.rs:160-175 consumes it: the items the iterator yields.
\* The iterator goes on after an error item, from where the deserializer
\* stopped: behind a byte that starts no item, behind an item that is no
\* Record, at the end of the slice for a truncated item
RECURSIVE Decode(_)
Decode(bytes) ==
    IF bytes = <<>> THEN <<>>
    ELSE LET n == 0 - Head(bytes)
         IN  IF n < 1 THEN <<FormatError>> \o Decode(Tail(bytes))
             ELSE IF Len(bytes) < n + 1 THEN <<FormatError>>
             ELSE IF /\ bytes[2] > 0
                     /\ \A i \in 2..(n + 1) : bytes[i] = bytes[2]
             THEN <<[ok |-> TRUE, rec |-> [id |-> bytes[2], n |-> n]]>>
                      \o Decode(SubSeq(bytes, n + 2, Len(bytes)))
             ELSE <<FormatError>> \o Decode(SubSeq(bytes, n + 2, Len(bytes)))

\* the records among the items of Decode
RECURSIVE Records(_)
Records(items) ==
    IF items = <<>> THEN <<>>
    ELSE (IF Head(items).ok THEN <<Head(items).rec>> ELSE <<>>) \o Records(Tail(items))

\* mutant: the drain is a single read of one byte
read_to_end_one_byte(buf, cursor, out) ==
    LET r == read(buf, cursor, 1)
    IN  [out |-> out \o r.data, cursor |-> r.cursor]

\* Read::read_to_end(&mut read_buf): read into the Vec's spare capacity (a
\* 32-byte probe once it is full) until read returns 0
RECURSIVE read_to_end(_, _, _)
read_to_end(buf, cursor, out) ==
    LET spare == Capacity - Len(out)
        r == read(buf, cursor, IF spare > 0 THEN spare ELSE 32)
    IN  IF r.n = 0 THEN [out |-> out, cursor |-> r.cursor]
        ELSE read_to_end(buf, r.cursor, out \o r.data)

\* mutant: read_buf keeps its contents after the send
read_buf_keep(buf) == buf

\* client.rs:119 read_buf.clear()
read_buf_clear(buf) == <<>>

Binary(data) == [t |-> "Binary", data |-> data]
CloseFrame == [t |-> "Close", data |-> <<>>]
\* the socket is dropped without a close frame: the server's stream yields
\* an error
Abort == [t |-> "Abort", data |-> <<>>]

\* LogClient::log called by producer p with a record of n payload bytes:
\* writer.lock().unwrap() panics on a poisoned lock; to_writer(..).unwrap()
\* panics on Err while the guard is held, which poisons the lock
PipeLog(p) ==
    \E n \in 1..MaxPayload :
        /\ prod[p] = "alive"
        /\ Len(submitted) < MaxRecords
        /\ LET r == [id |-> Len(submitted) + 1, n |-> n]
               res == to_writer(wbuf, EncPieces(r))
               new == SubSeq(res.buf, Len(wbuf) + 1, Len(res.buf))
           IN  /\ submitted' = Append(submitted, r)
               /\ IF poisoned
                  THEN /\ prod' = [prod EXCEPT ![p] = "panicked"]
                       /\ UNCHANGED <<wbuf, written, epochs, lateWrite, overflowed,
                                      poisoned>>
                  ELSE /\ wbuf' = res.buf
                       /\ written' = written \o new
                       /\ epochs' = [epochs EXCEPT ![Len(epochs)] = @ \o new]
                       /\ lateWrite' = (lateWrite \/ (flushed /\ new # <<>>))
                       /\ overflowed' = (overflowed \/ ~res.ok)
                       /\ poisoned' = ~res.ok
                       /\ prod' = IF res.ok THEN prod
                                  ELSE [prod EXCEPT ![p] = "panicked"]
        /\ UNCHANGED <<rbuf, read_cursor, chan, flushed, wpc, is_finaly, read_buf,
                       next_duration, ticks, wire, sent>>
        /\ UNCHANGED <<serverVars, outsidePipe>>

PipeLogs == \E p \in Producers : PipeLog(p)

\* LogClient::flush: close.send(()).ok(); the send fails, and is ignored,
\* once the worker has dropped the receiver.  It is called through
\* logger::flush, which joins the worker before it returns, so a call finds
\* no signal of an earlier call unread
PipeFlush ==
    /\ chan = 0
    /\ flushed' = TRUE
    /\ chan' = IF wpc \in {"done", "panicked"} THEN chan ELSE chan + 1
    /\ UNCHANGED <<bufVars, written, poisoned, prod, submitted, wpc, is_finaly,
                   read_buf, next_duration, ticks, wire, sent, epochs, lateWrite,
                   overflowed>>
    /\ UNCHANGED <<serverVars, outsidePipe>>

\* client.rs:103 connect(&self.url).unwrap(): the handshake is done, the
\* server has built the WsConn and WsConn::started has sent the
\* StorageRequest and waits for the reply (actor.rs:112-127)
WorkerConnect ==
    /\ wpc = "connect"
    /\ wpc' = "recv"
    /\ conn' = "waiting"
    /\ storage_mb' = TRUE
    /\ UNCHANGED <<bufVars, written, poisoned, prod, submitted, chan, flushed,
                   is_finaly, read_buf, next_duration, ticks, wire, sent, epochs,
                   lateWrite, overflowed>>
    /\ UNCHANGED <<session_addr, conn_mb, sess, sess_mb, seqdata, outsidePipe>>

\* client.rs:108 is_finaly = matches!(recv_timeout(next_duration), Ok(_))
WorkerRecv ==
    /\ wpc = "recv"
    /\ IF chan > 0
       THEN /\ chan' = chan - 1
            /\ is_finaly' = TRUE
            /\ ticks' = ticks
       ELSE /\ ticks < MaxTicks
            /\ chan' = chan
            /\ is_finaly' = FALSE
            /\ ticks' = ticks + 1
    /\ wpc' = "swap"
    /\ UNCHANGED <<bufVars, written, poisoned, prod, submitted, flushed, read_buf,
                   next_duration, wire, sent, epochs, lateWrite, overflowed>>
    /\ UNCHANGED <<serverVars, outsidePipe>>

\* client.rs:110 self.buf.swap(); lock().expect(..) panics on a poisoned
\* write lock, the thread ends and its socket is dropped
WorkerSwap ==
    /\ wpc = "swap"
    /\ IF poisoned
       THEN /\ wpc' = "panicked"
            /\ wire' = Append(wire, Abort)
            /\ UNCHANGED <<bufVars, epochs>>
       ELSE LET res == swap(wbuf, rbuf, read_cursor)
            IN  /\ wbuf' = res.wbuf
                /\ rbuf' = res.rbuf
                /\ read_cursor' = res.cursor
                /\ epochs' = Append(epochs, <<>>)
                /\ wpc' = "drain"
                /\ wire' = wire
    /\ UNCHANGED <<written, poisoned, prod, submitted, chan, flushed, is_finaly,
                   read_buf, next_duration, ticks, sent, lateWrite, overflowed>>
    /\ UNCHANGED <<serverVars, outsidePipe>>

\* client.rs:111-114 reader.lock().unwrap().read_to_end(&mut read_buf)
WorkerDrain ==
    /\ wpc = "drain"
    /\ LET res == read_to_end(rbuf, read_cursor, read_buf)
       IN  /\ read_buf' = res.out
           /\ read_cursor' = res.cursor
    /\ wpc' = "send"
    /\ UNCHANGED <<wbuf, rbuf, written, poisoned, prod, submitted, chan, flushed,
                   is_finaly, next_duration, ticks, wire, sent, epochs, lateWrite,
                   overflowed>>
    /\ UNCHANGED <<serverVars, outsidePipe>>

\* client.rs:115-119 write_message(Message::binary(&read_buf[..])), then
\* read_buf.clear()
WorkerSend ==
    /\ wpc = "send"
    /\ wire' = Append(wire, Binary(read_buf))
    /\ sent' = Append(sent, Binary(read_buf))
    /\ read_buf' = read_buf_clear(read_buf)
    /\ wpc' = "next"
    /\ UNCHANGED <<bufVars, written, poisoned, prod, submitted, chan, flushed,
                   is_finaly, next_duration, ticks, epochs, lateWrite, overflowed>>
    /\ UNCHANGED <<serverVars, outsidePipe>>

\* client.rs:120-123 break when is_finaly, else
\* next_duration = self.tick_duration - start.elapsed(); Duration's Sub
\* panics when the iteration took longer than the tick
WorkerNext ==
    /\ wpc = "next"
    /\ IF is_finaly
       THEN /\ wpc' = "close"
            /\ UNCHANGED <<next_duration, wire>>
       ELSE \E spent \in 0..MaxElapsed :
               IF spent > TickDuration
               THEN /\ wpc' = "panicked"
                    /\ wire' = Append(wire, Abort)
                    /\ UNCHANGED next_duration
               ELSE /\ next_duration' = TickDuration - spent
                    /\ wpc' = "recv"
                    /\ wire' = wire
    /\ UNCHANGED <<bufVars, written, poisoned, prod, submitted, chan, flushed,
                   is_finaly, read_buf, ticks, sent, epochs, lateWrite, overflowed>>
    /\ UNCHANGED <<serverVars, outsidePipe>>

\* client.rs:125-126 client.close(None).unwrap(); Ok(())
WorkerClose ==
    /\ wpc = "close"
    /\ wire' = Append(wire, CloseFrame)
    /\ sent' = Append(sent, CloseFrame)
    /\ wpc' = "done"
    /\ UNCHANGED <<bufVars, written, poisoned, prod, submitted, chan, flushed,
                   is_finaly, read_buf, next_duration, ticks, epochs, lateWrite,
                   overflowed>>
    /\ UNCHANGED <<serverVars, outsidePipe>>

\* Handler<StorageRequest> for StorageActor: create the session and start
\* its SessionActor, or report the error; the reply is in WsConn's mailbox
\* when the handler returns, which ends WsConn's wait
StorageHandle ==
    /\ storage_mb
    /\ storage_mb' = FALSE
    /\ \E created \in BOOLEAN :
          /\ sess' = IF created THEN "running" ELSE sess
          /\ conn_mb' = Append(conn_mb, IF created THEN "Accept" ELSE "Error")
    /\ conn' = "ready"
    /\ UNCHANGED <<session_addr, sess_mb, seqdata>>
    /\ UNCHANGED <<bufVars, written, clientVars, outsidePipe>>

\* WsConn::stopping: send Close to the session writer if there is one
stopping(addr, mb) == IF addr THEN Append(mb, [cmd |-> "Close", rec |-> [id |-> 0, n |-> 0]]) ELSE mb

\* Handler<StorageResponse> for WsConn
ConnResponse ==
    /\ conn = "ready"
    /\ conn_mb # <<>>
    /\ conn_mb' = Tail(conn_mb)
    /\ IF Head(conn_mb) = "Accept"
       THEN /\ session_addr' = TRUE
            /\ UNCHANGED <<conn, sess_mb>>
       ELSE /\ conn' = "stopped"
            /\ sess_mb' = stopping(session_addr, sess_mb)
            /\ UNCHANGED session_addr
    /\ UNCHANGED <<storage_mb, sess, seqdata>>
    /\ UNCHANGED <<bufVars, written, clientVars, outsidePipe>>

\* mutant: the records of a binary message are sent last first
dispatch_last_first(addr, mb, bin) ==
    IF addr
    THEN mb \o [i \in 1..Len(Records(Decode(bin))) |->
                   [cmd |-> "Record",
                    rec |-> Records(Decode(bin))[Len(Records(Decode(bin))) + 1 - i]]]
    ELSE mb

\* the SessionCommand::Record messages WsConn sends for one binary message
dispatch(addr, mb, bin) ==
    IF addr
    THEN mb \o [i \in 1..Len(Records(Decode(bin))) |->
                   [cmd |-> "Record", rec |-> Records(Decode(bin))[i]]]
    ELSE mb

\* StreamHandler for WsConn, one frame.  The context polls its mailbox
\* before its stream and polls neither while the wait of started() is
\* pending, so a frame is handled only after the StorageResponse
ConnFrame ==
    /\ conn = "ready"
    /\ conn_mb = <<>>
    /\ wire # <<>>
    /\ wire' = Tail(wire)
    /\ IF Head(wire).t = "Binary"
       THEN /\ sess_mb' = dispatch(session_addr, sess_mb, Head(wire).data)
            /\ UNCHANGED conn
       ELSE /\ conn' = "stopped"
            /\ sess_mb' = stopping(session_addr, sess_mb)
    /\ UNCHANGED <<storage_mb, session_addr, conn_mb, sess, seqdata>>
    /\ UNCHANGED <<bufVars, written, poisoned, prod, submitted, chan, flushed, wpc,
                   is_finaly, read_buf, next_duration, ticks, sent, epochs, lateWrite,
                   overflowed, outsidePipe>>

\* mutant: the record is put in front of what the file holds
push_front(file, rec) == Enc(rec) \o file

\* CBORSequenceWriter::push: serde_cbor::to_writer(&mut self.writer, record)
push(file, rec) == file \o Enc(rec)

\* Handler<SessionCommand> for SessionActor: Record -> session.push(&record)
\* (CBORSequenceWriter::push encodes it into the file's writer), Close ->
\* ctx.stop()
SessionHandle ==
    /\ sess = "running"
    /\ sess_mb # <<>>
    /\ sess_mb' = Tail(sess_mb)
    /\ IF Head(sess_mb).cmd = "Record"
       THEN /\ seqdata' = push(seqdata, Head(sess_mb).rec)
            /\ UNCHANGED sess
       ELSE /\ sess' = "stopped"
            /\ UNCHANGED seqdata
    /\ UNCHANGED <<storage_mb, conn, session_addr, conn_mb>>
    /\ UNCHANGED <<bufVars, written, clientVars, outsidePipe>>

InitPipe ==
    /\ InitBuffer /\ InitHist /\ InitLogger /\ InitSession /\ InitClient /\ InitServer
    /\ InitProducers /\ InitCollector /\ InitExtra

NextPipe ==
    \/ PipeLogs
    \/ PipeFlush
    \/ WorkerConnect
    \/ WorkerRecv
    \/ WorkerSwap
    \/ WorkerDrain
    \/ WorkerSend
    \/ WorkerNext
    \/ WorkerClose
    \/ StorageHandle
    \/ ConnResponse
    \/ ConnFrame
    \/ SessionHandle

SpecPipe == InitPipe /\ [][NextPipe]_vars

\* the bodies of the binary messages among frames, in order
RECURSIVE Payloads(_)
Payloads(frames) ==
    IF frames = <<>> THEN <<>>
    ELSE (IF Head(frames).t = "Binary" THEN <<Head(frames).data>> ELSE <<>>)
             \o Payloads(Tail(frames))

C3_FlushDeliversAllWritten ==
    (wpc \in {"done", "panicked"} /\ flushed /\ ~lateWrite /\ ~overflowed) =>
        /\ Flatten(Payloads(sent)) = written
        /\ sent # <<>>
        /\ sent[Len(sent)] = CloseFrame
        /\ \A i \in 1..(Len(sent) - 1) : sent[i].t = "Binary"

\* C8: the bytes written between two consecutive swaps are the body of
\* exactly one binary message, the messages follow the order of the swaps,
\* and only the bytes of the latest swap can still be unsent, while the
\* worker drains or sends them
C8_OneMessagePerSwap ==
    LET bodies == Payloads(sent)
        swaps == Len(epochs) - 1
    IN  /\ Len(bodies) <= swaps
        /\ \A i \in 1..Len(bodies) : bodies[i] = epochs[i]
        /\ Len(bodies) < swaps => (swaps = Len(bodies) + 1 /\ wpc \in {"drain", "send"})

\* two swaps have each moved bytes, the first one two whole records, and
\* both messages are sent
C8_Witness ==
    /\ Len(Payloads(sent)) >= 2
    /\ Len(Decode(Payloads(sent)[1])) = 2
    /\ Payloads(sent)[2] # <<>>
    /\ Len(epochs) >= 3

\* C12: a log call whose record does not fit returns normally: no producer
\* panics and the write side's lock stays usable
C12_OverflowDropsSilently ==
    overflowed => (~poisoned /\ \A p \in Producers : prod[p] = "alive")

\* C13: the write side is at every point a concatenation of complete record
\* encodings; a record that does not fit leaves no byte in it
C13_WriteSideHoldsWholeRecords ==
    \A i \in 1..Len(Decode(wbuf)) : Decode(wbuf)[i].ok

\* the drop counter a caller can read from the facade: LogClient has the
\* fields writer and close_ch only and counts nothing
drop_counter == 0

\* the records whose write() returned Err so far: the first one poisons the
\* lock, so no later log call reaches write()
notFit == IF overflowed THEN 1 ELSE 0

\* C14: the facade's drop counter equals the number of records that did not
\* fit in the write side
C14_DropCounterCountsDrops == drop_counter = notFit

\* C17: a flush() of a client that logged nothing makes the worker send at
\* most empty binary messages, then the close frame, and leave normally
C17_ZeroRecordFlushClosesCleanly ==
    (flushed /\ submitted = <<>> /\ wpc \in {"done", "panicked"}) =>
        /\ wpc = "done"
        /\ sent # <<>>
        /\ sent[Len(sent)] = CloseFrame
        /\ \A i \in 1..Len(Payloads(sent)) : Payloads(sent)[i] = <<>>

\* the records of the first h of the binary bodies, in decode order
RECURSIVE RecordsOf(_, _)
RecordsOf(bodies, h) ==
    IF h = 0 THEN <<>>
    ELSE RecordsOf(bodies, h - 1) \o Records(Decode(bodies[h]))

\* the records that have arrived on the connection: those of the binary
\* messages sent that are no longer on the wire
Arrived ==
    RecordsOf(Payloads(sent), Len(Payloads(sent)) - Len(Payloads(wire)))

\* the records waiting in the session writer's mailbox, in order
RECURSIVE Waiting(_)
Waiting(mb) ==
    IF mb = <<>> THEN <<>>
    ELSE (IF Head(mb).cmd = "Record" THEN <<Head(mb).rec>> ELSE <<>>)
             \o Waiting(Tail(mb))

\* C19: the seqdata file holds the records in the order they arrived, message
\* after message and in decode order within a message; with those still in
\* the session writer's mailbox they are exactly the records that arrived
C19_FileInArrivalOrder ==
    LET stored == Records(Decode(seqdata))
        arrived == Arrived
    IN  /\ sess = "none" => seqdata = <<>>
        /\ IsPrefix(stored, arrived)
        /\ sess = "running" => stored \o Waiting(sess_mb) = arrived

\* the file holds the two records of a first message and the record of a
\* second one
C19_Witness ==
    /\ Len(Records(Decode(seqdata))) = 3
    /\ Len(Payloads(sent)) >= 2
    /\ Len(Decode(Payloads(sent)[1])) = 2
    /\ Len(Decode(Payloads(sent)[2])) = 1

(***************************************************************************)
(* SpecRace: producer threads inside __log_api.  The record is built,      *)
(* elapsed field included, before logger().log(..) takes the write lock.   *)
(***************************************************************************)
\* the clock readings of one run
MaxClock == 3
\* records written in one run
MaxWrites == 3

\* Instant::elapsed is monotonic: time passes
advance(t) == t + 1

Advance ==
    /\ now < MaxClock
    /\ now' = advance(now)
    /\ UNCHANGED <<rec_elapsed, lockOrder, outsideRace>>

\* lib.rs:329-338: the RecordBorrow is built, with elapsed: session::elapsed()
BuildRecord(p) ==
    /\ rec_elapsed[p] = None
    /\ ~elapsed(SESSION).panics
    /\ rec_elapsed' = [rec_elapsed EXCEPT ![p] = now]
    /\ UNCHANGED <<now, lockOrder, outsideRace>>

BuildRecords == \E p \in Producers : BuildRecord(p)

\* client.rs:261-264 LogClient::log(&record): take the write lock, encode
\* the record into the write side, release the lock
LockAndWrite(p) ==
    /\ rec_elapsed[p] # None
    /\ Len(lockOrder) < MaxWrites
    /\ lockOrder' = Append(lockOrder, rec_elapsed[p])
    /\ rec_elapsed' = [rec_elapsed EXCEPT ![p] = None]
    /\ UNCHANGED <<now, outsideRace>>

LockAndWrites == \E p \in Producers : LockAndWrite(p)

\* LogClient::new has run: SESSION is set
InitRace ==
    /\ InitBuffer /\ InitHist /\ InitLogger /\ InitClient /\ InitServer
    /\ SESSION = session_init(FALSE)
    /\ InitProducers /\ InitCollector /\ InitExtra

NextRace ==
    \/ Advance
    \/ BuildRecords
    \/ LockAndWrites

SpecRace == InitRace /\ [][NextRace]_vars

\* C15: the elapsed values of the records are non-decreasing in the order
\* the producers took the write lock
C15_ElapsedNonDecreasingInLockOrder ==
    \A i \in 1..(Len(lockOrder) - 1) : lockOrder[i] <= lockOrder[i + 1]

(***************************************************************************)
(* SpecMulti: the collector serving the connections of Conns at the same   *)
(* time: one StorageActor, one WsConn per connection, one SessionActor per *)
(* session created.  Each client sends binary messages of one record and   *)
(* may close.  File and directory operations succeed or fail as a whole.   *)
(***************************************************************************)
\* records a client sends on its connection in one run
MaxConnRecords == 2

\* the seq-th record of the client of connection c, and the connection a
\* record was sent on
RecordOf(c, seq) == [id |-> seq * Cardinality(Conns) + c, n |-> 1]
Origin(rec) == ((rec.id - 1) % Cardinality(Conns)) + 1

\* mutant: every session is given the same directory
get_session_one_dir(uuid) == 1

\* StorageActor::get_session / Storage::create_session: the directory is
\* named uuid.to_string()
get_session(uuid) == uuid

\* mutant: an identifier already given to a connection may come again
new_v4_repeating(used) == Uuids

\* Uuid::new_v4(): a version 4 identifier; it does not return a value it has
\* returned before
new_v4(used) == Uuids \ used

\* main.rs ws_index: WsConn::new(Uuid::new_v4(), ..) and the handshake;
\* WsConn::started sends the StorageRequest and waits
ws_index(c) ==
    /\ conns[c].state = "none"
    /\ \E u \in new_v4({conns[d].id : d \in Conns}) :
          /\ conns' = [conns EXCEPT ![c].state = "waiting", ![c].id = u,
                                    ![c].requests = @ + 1]
          /\ storage_inbox' = Append(storage_inbox, [addr |-> c, self_id |-> u])
    /\ UNCHANGED <<sessions, outsideMulti>>

\* the client of connection c sends a binary message with its next record
ClientSend(c) ==
    /\ conns[c].state # "none"
    /\ ~conns[c].fin
    /\ conns[c].sentn < MaxConnRecords
    /\ conns' = [conns EXCEPT
          ![c].stream = Append(@, Binary(Enc(RecordOf(c, conns[c].sentn)))),
          ![c].sentn = @ + 1,
          ![c].early = IF conns[c].answer = "none" THEN @ + 1 ELSE @,
          ![c].whole = Append(@, RecordOf(c, conns[c].sentn))]
    /\ UNCHANGED <<storage_inbox, sessions, outsideMulti>>

\* the client of connection c sends its close frame
ClientClose(c) ==
    /\ conns[c].state # "none"
    /\ ~conns[c].fin
    /\ conns' = [conns EXCEPT ![c].stream = Append(@, CloseFrame), ![c].fin = TRUE]
    /\ UNCHANGED <<storage_inbox, sessions, outsideMulti>>

\* Handler<StorageRequest> for StorageActor: get_session(msg.self_id), start
\* a SessionActor on it, msg.addr.do_send(the response)
StorageHandleMulti ==
    /\ storage_inbox # <<>>
    /\ storage_inbox' = Tail(storage_inbox)
    /\ LET msg == Head(storage_inbox)
           dir == get_session(msg.self_id)
       IN  \E created \in BOOLEAN :
              /\ sessions' = IF created
                             THEN [sessions EXCEPT ![dir].state = "running",
                                                   ![dir].writers = @ + 1]
                             ELSE sessions
              /\ conns' = [conns EXCEPT
                    ![msg.addr].mb = Append(@, IF created
                                               THEN [t |-> "Accept", addr |-> dir]
                                               ELSE [t |-> "Error", addr |-> 0]),
                    ![msg.addr].state = "ready"]
    /\ UNCHANGED outsideMulti

\* WsConn::stopping for a WsConn whose session_addr is addr
\* mutant: the Close overtakes the commands waiting in the mailbox
stoppingMulti_overtaking(ss, addr) ==
    IF addr # 0
    THEN [ss EXCEPT ![addr].mb = <<[cmd |-> "Close", rec |-> [id |-> 0, n |-> 0]]>> \o @]
    ELSE ss

\* mutant: a stopping connection tells its session writer nothing
stoppingMulti_silent(ss, addr) == ss

\* WsConn::stopping: do_send(SessionCommand::Close) when session_addr is
\* Some
stoppingMulti(ss, addr) ==
    IF addr # 0
    THEN [ss EXCEPT ![addr].mb = Append(@, [cmd |-> "Close", rec |-> [id |-> 0, n |-> 0]])]
    ELSE ss

\* mutant: an Error response is logged and the connection goes on
on_response_error_ignored(ws, res) ==
    IF res.t = "Accept"
    THEN [ws EXCEPT !.session_addr = res.addr, !.answer = res.t]
    ELSE [ws EXCEPT !.answer = res.t]

\* actor.rs:145-153 the body of Handler<StorageResponse> for WsConn: Accept
\* stores the address, Error calls ctx.stop()
on_response(ws, res) ==
    IF res.t = "Accept"
    THEN [ws EXCEPT !.session_addr = res.addr, !.answer = res.t]
    ELSE [ws EXCEPT !.state = "stopped", !.answer = res.t]

\* Handler<StorageResponse> for WsConn
ConnResponseMulti(c) ==
    /\ conns[c].state = "ready"
    /\ conns[c].mb # <<>>
    /\ LET res == Head(conns[c].mb)
           after == on_response(conns[c], res)
       IN  /\ conns' = [conns EXCEPT ![c] = [after EXCEPT !.mb = Tail(@)]]
           /\ sessions' = IF after.state = "stopped"
                          THEN stoppingMulti(sessions, after.session_addr)
                          ELSE sessions
    /\ UNCHANGED <<storage_inbox, outsideMulti>>

\* mutant: started does not wait: frames are handled while the request is
\* still out
stream_polled_no_wait(ws) == ws.state \in {"waiting", "ready"}

\* actor.rs:113-126 started ends in .wait(ctx): the context handles nothing
\* else until the StorageActor has handled the request; after that each poll
\* of the context empties the mailbox before it polls the frame stream
stream_polled(ws) == ws.state = "ready" /\ ws.mb = <<>>

\* StreamHandler for WsConn, one frame of connection c
ConnFrameMulti(c) ==
    /\ stream_polled(conns[c])
    /\ conns[c].stream # <<>>
    /\ LET frame == Head(conns[c].stream)
           addr == conns[c].session_addr
       IN  IF frame.t = "Binary"
           THEN /\ conns' = [conns EXCEPT
                      ![c].stream = Tail(@),
                      ![c].dropped = IF addr = 0
                                     THEN @ + Len(Records(Decode(frame.data)))
                                     ELSE @]
                /\ sessions' = IF addr # 0
                               THEN [sessions EXCEPT ![addr].mb =
                                        dispatch(TRUE, @, frame.data)]
                               ELSE sessions
           ELSE /\ conns' = [conns EXCEPT ![c].stream = Tail(@), ![c].state = "stopped"]
                /\ sessions' = stoppingMulti(sessions, addr)
    /\ UNCHANGED <<storage_inbox, outsideMulti>>

\* Handler<SessionCommand> for the SessionActor of directory u
SessionHandleMulti(u) ==
    /\ sessions[u].state = "running"
    /\ sessions[u].mb # <<>>
    /\ LET cmd == Head(sessions[u].mb)
       IN  sessions' = [sessions EXCEPT
              ![u].mb = Tail(@),
              ![u].file = IF cmd.cmd = "Record" THEN push(@, cmd.rec) ELSE @,
              ![u].after_fail = IF cmd.cmd = "Record" /\ sessions[u].failed > 0
                                THEN @ + 1 ELSE @,
              ![u].state = IF cmd.cmd = "Record" THEN @ ELSE "stopped",
              \* Close: ctx.stop(), the actor and its Session are dropped
              ![u].writers = IF cmd.cmd = "Record" THEN @ ELSE @ - 1]
    /\ UNCHANGED <<storage_inbox, conns, outsideMulti>>

Connects == \E c \in Conns : ws_index(c)
ClientSends == \E c \in Conns : ClientSend(c)
ClientCloses == \E c \in Conns : ClientClose(c)
ConnResponses == \E c \in Conns : ConnResponseMulti(c)
ConnFrames == \E c \in Conns : ConnFrameMulti(c)
SessionHandles == \E u \in Uuids : SessionHandleMulti(u)

InitMulti ==
    /\ InitBuffer /\ InitHist /\ InitLogger /\ InitSession /\ InitClient /\ InitServer
    /\ InitProducers /\ InitCollector /\ InitExtra

NextMulti ==
    \/ Connects
    \/ ClientSends
    \/ ClientCloses
    \/ StorageHandleMulti
    \/ ConnResponses
    \/ ConnFrames
    \/ SessionHandles

SpecMulti == InitMulti /\ [][NextMulti]_vars

\* C20: two connections never share a session directory or a session
\* writer, and every record in a session's mailbox or seqdata file was sent
\* on the connection that session was created for
C20_NoCrossContamination ==
    /\ \A c, d \in Conns :
          (c # d /\ conns[c].id # 0 /\ conns[d].id # 0) =>
              /\ get_session(conns[c].id) # get_session(conns[d].id)
              /\ (conns[c].session_addr # 0 =>
                     conns[c].session_addr # conns[d].session_addr)
    /\ \A c \in Conns :
          conns[c].session_addr # 0 =>
              (conns[c].session_addr = conns[c].id
                  /\ sessions[conns[c].id].state # "none")
    /\ \A u \in Uuids :
          \A rec \in Range(Records(Decode(sessions[u].file)))
                       \cup Range(Waiting(sessions[u].mb)) :
              conns[Origin(rec)].id = u

\* both connections are served and each session's file holds all the records
\* of its own connection
C20_Witness ==
    \A c \in Conns :
        /\ conns[c].id # 0
        /\ Len(Records(Decode(sessions[conns[c].id].file))) = MaxConnRecords

\* C21: a session directory never has more than one live session writer:
\* when create_session opens a writer no other writer of that directory
\* is alive
C21_OneLiveWriterPerDirectory ==
    \A u \in Uuids :
        /\ sessions[u].writers <= 1
        /\ (sessions[u].state = "running") = (sessions[u].writers = 1)

\* both connections were accepted and two directories have a live writer
\* each
C21_Witness ==
    /\ \E u, v \in Uuids : u # v /\ sessions[u].writers = 1 /\ sessions[v].writers = 1
    /\ \A c \in Conns : conns[c].session_addr # 0

(***************************************************************************)
(* SpecStore: the Storage API of tools/src/lib.rs driven by arbitrary      *)
(* callers on one storage root: create_session, Session::push, the drop of *)
(* a Session, Storage::records, and a CBORSequenceReader.  A Session       *)
(* writes through a BufWriter on a File opened with create and write.      *)
(* Writes to an open file succeed; the open of seqdata may fail.           *)
(***************************************************************************)
\* pushes made on one Session
MaxPushes == 2
\* the capacity of the BufWriter (8 KiB in std)
BufWriterCap == 3
\* read_at is called with index in 0..MaxIndex and len in 1..MaxReadLen
MaxIndex == 2
MaxReadLen == 2

\* the seq-th record pushed on Session w, with n payload bytes
StoreRecord(w, seq, n) == [id |-> seq * MaxSessions + w, n |-> n]

\* File::write at offset pos of a file opened without append or truncate:
\* the bytes replace what the file holds from pos on, and extend it
file_write(file, pos, bytes) ==
    SubSeq(file, 1, pos) \o bytes \o SubSeq(file, pos + Len(bytes) + 1, Len(file))

\* BufWriter::flush_buf: the buffered bytes go to the file
flush_buf(h, file) ==
    [h |-> [h EXCEPT !.buf = <<>>, !.pos = @ + Len(h.buf)],
     file |-> file_write(file, h.pos, h.buf)]

\* BufWriter::write_all(piece): flush first when the piece does not fit the
\* spare capacity; a piece as long as the capacity goes straight to the file
bufwriter_write(h, file, piece) ==
    LET spare == BufWriterCap - Len(h.buf)
        f == IF Len(piece) > spare THEN flush_buf(h, file)
                                   ELSE [h |-> h, file |-> file]
    IN  IF Len(piece) >= BufWriterCap
        THEN [h |-> [f.h EXCEPT !.pos = @ + Len(piece)],
              file |-> file_write(f.file, f.h.pos, piece)]
        ELSE [h |-> [f.h EXCEPT !.buf = @ \o piece], file |-> f.file]

\* writer.rs:31-35 CBORSequenceWriter::push: serde_cbor::to_writer writes
\* the pieces of the record in turn
RECURSIVE writer_push(_, _, _)
writer_push(h, file, pieces) ==
    IF pieces = <<>> THEN [h |-> h, file |-> file]
    ELSE LET r == bufwriter_write(h, file, Head(pieces))
         IN  writer_push(r.h, r.file, Tail(pieces))

\* mutant: the buffered bytes are lost with the Session
drop_session_no_flush(h, file) ==
    [h |-> [h EXCEPT !.buf = <<>>, !.state = "dropped"], file |-> file]

\* lib.rs:180-184 Drop for Session: RecordWriter::flush is the trait's empty
\* default (writer.rs:7); the BufWriter is dropped with the Session and its
\* drop flushes the buffer
drop_session(h, file) ==
    LET f == flush_buf(h, file)
    IN  [h |-> [f.h EXCEPT !.state = "dropped"], file |-> f.file]

\* lib.rs:136-140 create_session on the entry of the name: create_dir_all,
\* then OpenOptions create+write on seqdata, which keeps what the file holds
create_session(entry, opened) ==
    [kind |-> "dir", has |-> entry.has \/ opened, seq |-> entry.seq]

\* mutant: the reader goes on from where the call before left the file
seek_start_stay(pos) == pos

\* reader.rs:37 self.file.seek(SeekFrom::Start(0))
seek_start(pos) == 0

\* reader.rs:39-51: the loop of read_at over the items the deserializer
\* yields; i is the number of the item, acc the result, the count and the
\* bytes used so far
RECURSIVE read_items(_, _, _, _, _)
read_items(items, i, index, len, acc) ==
    IF items = <<>> THEN acc
    ELSE LET it == Head(items)
             used == IF it.ok THEN acc.used + it.rec.n + 1 ELSE acc.total
         IN  IF i >= index
             THEN LET a == [acc EXCEPT
                              !.result = IF it.ok THEN Append(@, it.rec) ELSE @,
                              !.count = @ + 1,
                              !.used = used]
                  IN  IF a.count >= len THEN a
                      ELSE read_items(Tail(items), i + 1, index, len, a)
             ELSE read_items(Tail(items), i + 1, index, len, [acc EXCEPT !.used = used])

\* reader.rs:32-53 CBORSequenceReader::read_at on a File at offset pos
read_at(file, pos, index, len) ==
    LET p == seek_start(pos)
        rest == SubSeq(file, p + 1, Len(file))
        a == read_items(Decode(rest), 0, index, len,
                        [result |-> <<>>, count |-> 0, used |-> 0, total |-> Len(rest)])
    IN  [result |-> a.result, pos |-> p + a.used]

\* lib.rs:142-157 Storage::records: one SessionInfo for every entry read_dir
\* yields
records(d) == {n \in Names : d[n].kind # "absent"}

\* Storage::create_session(name), kept in handle w.  On a plain file of that
\* name create_dir_all fails and the expect panics: nothing changes
CreateSession(w, name) ==
    /\ handles[w].state = "none"
    /\ \A v \in SessionIds : v < w => handles[v].state # "none"
    /\ disk[name].kind # "file"
    /\ \E opened \in BOOLEAN :
          /\ disk' = [disk EXCEPT ![name] = create_session(@, opened)]
          /\ handles' =
                IF ~opened THEN handles
                ELSE [v \in SessionIds |->
                        IF v = w
                        THEN [state |-> "live", dir |-> name, pos |-> 0, buf |-> <<>>,
                              pushed |-> <<>>, fresh |-> ~disk[name].has,
                              alone |-> \A u \in SessionIds :
                                           ~(handles[u].state = "live"
                                               /\ handles[u].dir = name)]
                        ELSE IF handles[v].state = "live" /\ handles[v].dir = name
                        THEN [handles[v] EXCEPT !.alone = FALSE]
                        ELSE handles[v]]
          /\ last' = [op |-> "create_session", dir |-> name, ok |-> opened,
                      pre_file |-> disk[name].seq, existed |-> disk[name].kind = "dir"]
    /\ UNCHANGED <<reader, outsideStore>>

\* lib.rs:174-178 Session::push(&record) on handle w
Push(w) ==
    /\ handles[w].state = "live"
    /\ Len(handles[w].pushed) < MaxPushes
    /\ \E n \in 1..MaxPayload :
          LET rec == StoreRecord(w, Len(handles[w].pushed), n)
              dir == handles[w].dir
              r == writer_push(handles[w], disk[dir].seq, EncPieces(rec))
          IN  /\ handles' = [handles EXCEPT ![w] = [r.h EXCEPT !.pushed = Append(@, rec)]]
              /\ disk' = [disk EXCEPT ![dir].seq = r.file]
              /\ last' = [op |-> "push", dir |-> dir, pre_file |-> disk[dir].seq]
    /\ UNCHANGED <<reader, outsideStore>>

\* the Session of handle w goes out of scope
Drop(w) ==
    /\ handles[w].state = "live"
    /\ LET dir == handles[w].dir
           r == drop_session(handles[w], disk[dir].seq)
       IN  /\ handles' = [handles EXCEPT ![w] = r.h]
           /\ disk' = [disk EXCEPT ![dir].seq = r.file]
           /\ last' = [op |-> "drop", dir |-> dir, pre_file |-> disk[dir].seq,
                       pushed |-> handles[w].pushed, fresh |-> handles[w].fresh,
                       alone |-> handles[w].alone]
    /\ UNCHANGED <<reader, outsideStore>>

\* reader.rs:25-28 CBORSequenceReader::new(dirpath): File::open of seqdata
OpenReader(name) ==
    /\ ~reader.open
    /\ disk[name].has
    /\ reader' = [open |-> TRUE, dir |-> name, pos |-> 0]
    /\ last' = [op |-> "open", dir |-> name]
    /\ UNCHANGED <<disk, handles, outsideStore>>

\* reader.read_at(index, len)
ReadAt(index, len) ==
    /\ reader.open
    /\ LET file == disk[reader.dir].seq
           r == read_at(file, reader.pos, index, len)
       IN  /\ reader' = [reader EXCEPT !.pos = r.pos]
           /\ last' = [op |-> "read_at", dir |-> reader.dir, index |-> index, len |-> len,
                       file |-> file, pre_pos |-> reader.pos, result |-> r.result]
    /\ UNCHANGED <<disk, handles, outsideStore>>

\* storage.records()
ListSessions ==
    /\ last.op # "records"
    /\ last' = [op |-> "records", result |-> records(disk)]
    /\ UNCHANGED <<disk, handles, reader, outsideStore>>

CreateSessions == \E w \in SessionIds, name \in Names : CreateSession(w, name)
Pushes == \E w \in SessionIds : Push(w)
Drops == \E w \in SessionIds : Drop(w)
OpenReaders == \E name \in Names : OpenReader(name)
ReadAts == \E index \in 0..MaxIndex, len \in 1..MaxReadLen : ReadAt(index, len)

\* Storage::new(root) has run on a directory that may hold plain files
InitStore ==
    /\ InitBuffer /\ InitHist /\ InitLogger /\ InitSession /\ InitClient /\ InitServer
    /\ InitProducers /\ InitCollector /\ InitCodec /\ InitClock /\ InitFrame
    /\ InitLock
    /\ disk \in [Names -> {Absent, PlainFile}]
    /\ handles = [w \in SessionIds |-> NoHandle]
    /\ reader = NoReader

NextStore ==
    \/ CreateSessions
    \/ Pushes
    \/ Drops
    \/ OpenReaders
    \/ ReadAts
    \/ ListSessions

SpecStore == InitStore /\ [][NextStore]_vars

\* the encoding of a sequence of records
RECURSIVE EncAll(_)
EncAll(recs) == IF recs = <<>> THEN <<>> ELSE Enc(Head(recs)) \o EncAll(Tail(recs))

AllOk(items) == \A i \in 1..Len(items) : items[i].ok

\* the seqdata file holds exactly the records the Session dropped last was
\* given, in push order
DroppedFileIsPushed ==
    /\ AllOk(Decode(disk[last.dir].seq))
    /\ Records(Decode(disk[last.dir].seq)) = last.pushed
    /\ disk[last.dir].seq = EncAll(last.pushed)

\* C22 as stated: after any Session has had r1..rn pushed and is dropped,
\* seqdata decodes to exactly r1..rn
C22_DropLeavesExactlyPushed ==
    (last.op = "drop") => DroppedFileIsPushed

\* C22, amended: the same for a Session created on a directory that had no
\* seqdata file and that was the only Session of its directory while it lived
C22_FreshDropLeavesExactlyPushed ==
    (last.op = "drop" /\ last.fresh /\ last.alone) => DroppedFileIsPushed

\* such a Session was dropped after MaxPushes pushes, the last of which was
\* still in the BufWriter
C22_Witness ==
    /\ last.op = "drop" /\ last.fresh /\ last.alone
    /\ Len(last.pushed) = MaxPushes
    /\ Len(last.pre_file) < Len(disk[last.dir].seq)

\* C23: seqdata is append-only: create_session succeeds on an existing
\* directory and leaves the file as it was, and every push and every drop of
\* a Session leaves the bytes the file held before in place, its own bytes
\* after them
C23_SeqdataIsAppendOnly ==
    /\ (last.op = "create_session") => disk[last.dir].seq = last.pre_file
    /\ (last.op \in {"push", "drop"}) => IsPrefix(last.pre_file, disk[last.dir].seq)

\* C27: on a file of n valid records read_at(index, len) returns the records
\* at positions index .. min(index + len, n) - 1 in file order, whatever the
\* reader did before
C27_ReadAtReturnsTheWindow ==
    (last.op = "read_at" /\ AllOk(Decode(last.file))) =>
        LET all == Records(Decode(last.file))
            n == Len(all)
        IN  last.result = SubSeq(all, last.index + 1, min(last.index + last.len, n))

\* a reader that was already used reads a window that starts inside the
\* file and is cut by its end
C27_Witness ==
    /\ last.op = "read_at" /\ AllOk(Decode(last.file))
    /\ last.pre_pos > 0
    /\ last.index = 1
    /\ Len(Records(Decode(last.file))) = 2
    /\ last.len = 2
    /\ Len(last.result) = 1

\* C28: Storage::records returns the immediate subdirectories that contain a
\* seqdata file, and nothing else
C28_RecordsAreTheSessionDirectories ==
    (last.op = "records") =>
        last.result = {n \in Names : disk[n].kind = "dir" /\ disk[n].has}

(***************************************************************************)
(* SpecCodec: a Value (kv.rs) or a Record (lib.rs) is encoded by           *)
(* serde_cbor::to_vec and decoded again.  The encoding is the sequence of  *)
(* CBOR data item heads serde_cbor writes: its serializer writes a         *)
(* non-negative i64 as an unsigned integer and a float in the narrowest of *)
(* f16, f32, f64 that holds it exactly (test_array counts 3 bytes for      *)
(* 1.0_f32); its deserialize_any calls visit_u64 for an unsigned integer,  *)
(* visit_i64 for a negative one, visit_f32 for f16 and f32, visit_f64 for  *)
(* f64.                                                                    *)
(***************************************************************************)
\* integers tried are -MaxInt..MaxInt
MaxInt == 2
\* arrays tried have 0..MaxArray elements
MaxArray == 2

\* kv.rs:6-18 the variants of Value.  A float is named by the narrowest
\* IEEE width that holds it exactly: 16 (as 1.0), 32 (as 8.6_f32), 64
I64(n) == [v |-> "I64", n |-> n]
U64(n) == [v |-> "U64", n |-> n]
F32(w) == [v |-> "F32", w |-> w]
F64(w) == [v |-> "F64", w |-> w]
Bool(b) == [v |-> "Bool", b |-> b]
Text(t) == [v |-> "Text", t |-> t]
Bytes(y) == [v |-> "Bytes", y |-> y]
Array(a) == [v |-> "Array", a |-> a]

\* kv.rs:196-203 impl From<i8..i64, u8..u64> for Value: the integer is
\* widened to 64 bits
from_signed(n) == I64(n)
from_unsigned(n) == U64(n)

Scalars ==
    {Null} \cup {from_signed(n) : n \in (0 - MaxInt)..MaxInt}
           \cup {from_unsigned(n) : n \in 0..MaxInt}
           \cup {F32(w) : w \in {16, 32}}
           \cup {F64(w) : w \in {16, 32, 64}}
           \cup {Bool(b) : b \in BOOLEAN}
           \cup {Text(t) : t \in {"", "alice"}}
           \cup {Bytes(b) : b \in {<<>>, <<64>>}}

SeqsUpTo(S, n) == UNION {[1..k -> S] : k \in 0..n}

\* the constructible Values tried: scalars and arrays of scalars
Values == Scalars \cup {Array(a) : a \in SeqsUpTo(Scalars, MaxArray)}

\* a CBOR data item head
Tok(t, x) == [t |-> t, x |-> x]

\* serde_cbor Serializer::serialize_f32 / serialize_f64
ser_f32(w) == IF w = 16 THEN Tok("f16", w) ELSE Tok("f32", w)
ser_f64(w) == IF w < 64 THEN ser_f32(w) ELSE Tok("f64", w)

\* kv.rs:36-54 impl Serialize for Value
RECURSIVE ser_value(_)
ser_value(v) ==
    CASE v.v = "I64" -> <<IF v.n < 0 THEN Tok("nint", v.n) ELSE Tok("uint", v.n)>>
      [] v.v = "U64" -> <<Tok("uint", v.n)>>
      [] v.v = "F32" -> <<ser_f32(v.w)>>
      [] v.v = "F64" -> <<ser_f64(v.w)>>
      [] v.v = "Text" -> <<Tok("text", v.t)>>
      [] v.v = "Bool" -> <<Tok("bool", v.b)>>
      [] v.v = "Bytes" -> <<Tok("bytes", v.y)>>
      [] v.v = "Array" -> <<Tok("array", Len(v.a))>>
                             \o Flatten([i \in 1..Len(v.a) |-> ser_value(v.a[i])])
      [] v.v = "Null" -> <<Tok("null", 0)>>

Failed == [done |-> TRUE, ok |-> FALSE, val |-> 0, rest |-> <<>>]
Parsed(val, rest) == [done |-> TRUE, ok |-> TRUE, val |-> val, rest |-> rest]

\* kv.rs:56-176 impl Deserialize for Value: deserialize_any(ValueVisitor) on
\* the data items that follow the result st
RECURSIVE de_value(_)
RECURSIVE de_seq(_, _, _)
de_value(st) ==
    IF ~st.ok \/ st.rest = <<>> THEN Failed
    ELSE LET h == Head(st.rest)
             r == Tail(st.rest)
         IN  CASE h.t = "uint" -> Parsed(U64(h.x), r)
               [] h.t = "nint" -> Parsed(I64(h.x), r)
               [] h.t \in {"f16", "f32"} -> Parsed(F32(h.x), r)
               [] h.t = "f64" -> Parsed(F64(h.x), r)
               [] h.t = "text" -> Parsed(Text(h.x), r)
               [] h.t = "bytes" -> Parsed(Bytes(h.x), r)
               [] h.t = "bool" -> Parsed(Bool(h.x), r)
               [] h.t = "null" -> Parsed(Null, r)
               [] h.t = "array" -> de_seq(h.x, Parsed(<<>>, r), <<>>)
               [] OTHER -> Failed

\* kv.rs:161-172 visit_seq: next_element until the array ends
de_seq(n, st, acc) ==
    IF n = 0 THEN Parsed(Array(acc), st.rest)
    ELSE LET e == de_value(st)
         IN  IF ~e.ok THEN Failed ELSE de_seq(n - 1, e, Append(acc, e.val))

\* Option<T>
Nothing == [some |-> FALSE]
Some(x) == [some |-> TRUE, x |-> x]

\* lib.rs:27-33 the variant names of Level
Levels == {"Trace", "Debug", "Info", "Warn", "Error"}
\* the keys of a KV in BTreeMap order
KeyOrder == <<"i64", "u8">>

\* the Records tried (lib.rs:70-81): every field takes at least two values,
\* kv is None or a map of up to two keys to scalars
RecordsTried ==
    [metadata : [level : {"Info", "Error"}, target : {"uplog"}],
     elapsed : {[secs |-> 0, nanos |-> 0], [secs |-> 1, nanos |-> 500]},
     category : {"test.category"},
     module_path : {Nothing, Some("uplog")},
     file : {Nothing, Some("lib.rs")},
     line : {Nothing, Some(7)},
     message : {"test_message"},
     kv : {Nothing} \cup {Some(m) : m \in UNION {[K -> Scalars] : K \in SUBSET Range(KeyOrder)}}]

\* Option<String>, Option<u32>: None is null
ser_opt(o, t) == IF o.some THEN <<Tok(t, o.x)>> ELSE <<Tok("null", 0)>>

\* KV = BTreeMap<String, Value>: a map head, then key and value in key order
RECURSIVE ser_entries(_, _)
ser_entries(keys, m) ==
    IF keys = <<>> THEN <<>>
    ELSE (IF Head(keys) \in DOMAIN m
          THEN <<Tok("text", Head(keys))>> \o ser_value(m[Head(keys)])
          ELSE <<>>) \o ser_entries(Tail(keys), m)

ser_kv(o) ==
    IF o.some THEN <<Tok("map", Cardinality(DOMAIN o.x))>> \o ser_entries(KeyOrder, o.x)
    ELSE <<Tok("null", 0)>>

\* lib.rs:70-81 derive(Serialize) for Record, Metadata (48-52) and the
\* duration module (243-261): a struct is a map from field name to value
ser_record(r) ==
    <<Tok("map", 8),
      Tok("text", "metadata"), Tok("map", 2),
          Tok("text", "level"), Tok("text", r.metadata.level),
          Tok("text", "target"), Tok("text", r.metadata.target),
      Tok("text", "elapsed"), Tok("map", 2),
          Tok("text", "secs"), Tok("uint", r.elapsed.secs),
          Tok("text", "nanos"), Tok("uint", r.elapsed.nanos),
      Tok("text", "category"), Tok("text", r.category),
      Tok("text", "module_path")>> \o ser_opt(r.module_path, "text")
    \o <<Tok("text", "file")>> \o ser_opt(r.file, "text")
    \o <<Tok("text", "line")>> \o ser_opt(r.line, "uint")
    \o <<Tok("text", "message"), Tok("text", r.message),
         Tok("text", "kv")>> \o ser_kv(r.kv)

\* the next data item is exactly Tok(t, x)
de_head(st, t, x) ==
    IF st.ok /\ st.rest # <<>> /\ Head(st.rest).t = t /\ Head(st.rest).x = x
    THEN Parsed(x, Tail(st.rest)) ELSE Failed

\* the next data item has type t
de_item(st, t) ==
    IF st.ok /\ st.rest # <<>> /\ Head(st.rest).t = t
    THEN Parsed(Head(st.rest).x, Tail(st.rest)) ELSE Failed

\* Option<T>: null is None, anything else Some(T)
de_opt(st, t) ==
    IF st.ok /\ st.rest # <<>> /\ Head(st.rest).t = "null"
    THEN Parsed(Nothing, Tail(st.rest))
    ELSE LET r == de_item(st, t) IN IF r.ok THEN Parsed(Some(r.val), r.rest) ELSE Failed

\* BTreeMap<String, Value>: n entries of a text key and a Value
RECURSIVE de_entries(_, _, _)
de_entries(n, st, acc) ==
    IF n = 0 THEN Parsed(acc, st.rest)
    ELSE LET k == de_item(st, "text")
             v == de_value(k)
         IN  IF ~v.ok THEN Failed ELSE de_entries(n - 1, v, acc @@ (k.val :> v.val))

de_kv(st) ==
    IF st.ok /\ st.rest # <<>> /\ Head(st.rest).t = "null"
    THEN Parsed(Nothing, Tail(st.rest))
    ELSE LET h == de_item(st, "map")
             m == IF h.ok THEN de_entries(h.val, h, <<>>) ELSE Failed
         IN  IF m.ok THEN Parsed(Some(m.val), m.rest) ELSE Failed

\* lib.rs:70 derive(Deserialize) for Record.  The derived visitor takes the
\* fields in any order; they are parsed here in the order ser_record writes
de_record(st) ==
    LET level == de_item(de_head(de_head(de_head(de_head(st,
                     "map", 8), "text", "metadata"), "map", 2), "text", "level"), "text")
        target == de_item(de_head(level, "text", "target"), "text")
        secs == de_item(de_head(de_head(de_head(target,
                     "text", "elapsed"), "map", 2), "text", "secs"), "uint")
        nanos == de_item(de_head(secs, "text", "nanos"), "uint")
        category == de_item(de_head(nanos, "text", "category"), "text")
        module_path == de_opt(de_head(category, "text", "module_path"), "text")
        file == de_opt(de_head(module_path, "text", "file"), "text")
        line == de_opt(de_head(file, "text", "line"), "uint")
        message == de_item(de_head(line, "text", "message"), "text")
        kv == de_kv(de_head(message, "text", "kv"))
    IN  IF kv.ok /\ level.val \in Levels
        THEN Parsed([metadata |-> [level |-> level.val, target |-> target.val],
                     elapsed |-> [secs |-> secs.val, nanos |-> nanos.val],
                     category |-> category.val,
                     module_path |-> module_path.val,
                     file |-> file.val,
                     line |-> line.val,
                     message |-> message.val,
                     kv |-> kv.val], kv.rest)
        ELSE Failed

\* serde_cbor::to_vec(&x)
to_vec(c) == IF c.kind = "value" THEN ser_value(c.x) ELSE ser_record(c.x)

\* serde_cbor::from_slice::<T>(bytes): T::deserialize, then end() fails on
\* trailing data
from_slice(kind, toks) ==
    LET st == Parsed(0, toks)
        r == IF kind = "value" THEN de_value(st) ELSE de_record(st)
    IN  IF r.ok /\ r.rest # <<>> THEN Failed ELSE r

Serialize ==
    /\ cbytes = <<>>
    /\ cbytes' = to_vec(cin)
    /\ UNCHANGED <<cin, cout, outsideCodec>>

Deserialize ==
    /\ cbytes # <<>>
    /\ ~cout.done
    /\ cout' = from_slice(cin.kind, cbytes)
    /\ UNCHANGED <<cin, cbytes, outsideCodec>>

InitCodecTry ==
    /\ InitBuffer /\ InitHist /\ InitLogger /\ InitSession /\ InitClient /\ InitServer
    /\ InitProducers /\ InitCollector /\ InitStorage /\ InitClock /\ InitFrame
    /\ InitLock
    /\ cin \in {[kind |-> "value", x |-> v] : v \in Values}
               \cup {[kind |-> "record", x |-> r] : r \in RecordsTried}
    /\ cbytes = <<>>
    /\ cout = NotDecoded

NextCodec ==
    \/ Serialize
    \/ Deserialize

SpecCodec == InitCodecTry /\ [][NextCodec]_vars

\* C24: a Record decoded from its encoding equals the Record
C24_RecordRoundTrip ==
    (cin.kind = "record" /\ cout.done) => (cout.ok /\ cout.val = cin.x)

\* C25: a Value decoded from its encoding is the same variant with the same
\* contents, and the decoder consumed the whole encoding
C25_ValueRoundTrip ==
    (cin.kind = "value" /\ cout.done) =>
        (cout.ok /\ cout.val = cin.x /\ cout.rest = <<>>)

(***************************************************************************)
(* SpecClock: threads call session_init(), start_at() and elapsed()        *)
(* (session.rs) in any order while the clocks advance.  session_init is    *)
(* called directly, by init_noop, by devinit! and by LogClient::new        *)
(* (client.rs:233): the same function each time.  SESSION is a static mut  *)
(* read without synchronization: a read while another thread is inside     *)
(* call_once is a data race and may find None or a value.                  *)
(***************************************************************************)
\* calls of session_init in one run
MaxSessionInits == 3
\* calls of start_at() and of elapsed() that return, each
MaxReads == 2

\* mutant: the closure runs on every call
call_always(once) == once # "running"

\* Once::call_once: the closure runs for the first call only
call_once(once) == once = "incomplete"

\* session.rs:27-33 session_init(): INIT.call_once(..) runs the closure,
\* waits for the thread that is running it, or returns at once
SessionInitCall(t) ==
    /\ thread[t] = "idle"
    /\ seen.inits < MaxSessionInits
    /\ IF call_once(INIT)
       THEN INIT' = "running" /\ thread' = [thread EXCEPT ![t] = "closure"]
       ELSE IF INIT = "running"
       THEN thread' = [thread EXCEPT ![t] = "blocked"] /\ UNCHANGED INIT
       ELSE UNCHANGED <<INIT, thread>>
    /\ seen' = [seen EXCEPT !.inits = @ + 1,
                            !.waited = IF ~call_once(INIT) /\ INIT = "running"
                                       THEN @ + 1 ELSE @]
    /\ UNCHANGED <<info, wall, SESSION, now, outsideClock>>

\* session.rs:17-24, 30: SESSION = Some(SesstionInfo::new()) with
\* start_at: Utc::now() and instant: Instant::now()
WriteSession(t) ==
    /\ thread[t] = "closure"
    /\ info' = [start_at |-> wall, instant |-> now]
    /\ SESSION' = session_init(SESSION)
    /\ thread' = [thread EXCEPT ![t] = "written"]
    /\ seen' = [seen EXCEPT !.runs = @ + 1,
                            !.fixed = IF @ = NoInfo THEN info' ELSE @]
    /\ UNCHANGED <<INIT, wall, now, outsideClock>>

\* call_once returns: the Once is complete and the waiting callers go on
CompleteOnce(t) ==
    /\ thread[t] = "written"
    /\ INIT' = "complete"
    /\ thread' = [u \in Producers |->
                    IF u = t \/ thread[u] = "blocked" THEN "idle" ELSE thread[u]]
    /\ UNCHANGED <<info, wall, seen, SESSION, now, outsideClock>>

\* SESSION.as_ref().unwrap() in thread t, which then returns value: a panic
\* when SESSION is None; while a thread is inside call_once the read races
\* with its write and finds None or a value
ReadSession(t, field, value) ==
    /\ thread[t] = "idle"
    /\ Len(seen[field]) < MaxReads
    /\ seen.racy < MaxReads
    /\ IF INIT = "complete" /\ ~elapsed(SESSION).panics
       THEN /\ seen' = [seen EXCEPT ![field] = Append(@, value)]
            /\ UNCHANGED thread
       ELSE IF INIT = "running"
       THEN \/ /\ seen' = [seen EXCEPT !.racy = @ + 1]
               /\ UNCHANGED thread
            \/ /\ thread' = [thread EXCEPT ![t] = "panicked"]
               /\ UNCHANGED seen
       ELSE /\ thread' = [thread EXCEPT ![t] = "panicked"]
            /\ UNCHANGED seen
    /\ UNCHANGED <<INIT, info, wall, SESSION, now, outsideClock>>

\* session.rs:39-41 start_at()
StartAt(t) == ReadSession(t, "start_ats", info.start_at)

\* session.rs:35-37 elapsed(): instant.elapsed()
Elapsed(t) == ReadSession(t, "elapseds", now - info.instant)

\* the wall clock moves on
WallAdvance ==
    /\ wall < MaxClock
    /\ wall' = wall + 1
    /\ UNCHANGED <<INIT, info, thread, seen, SESSION, now, outsideClock>>

SessionInitCalls == \E t \in Producers : SessionInitCall(t)
WriteSessions == \E t \in Producers : WriteSession(t)
CompleteOnces == \E t \in Producers : CompleteOnce(t)
StartAts == \E t \in Producers : StartAt(t)
Elapseds == \E t \in Producers : Elapsed(t)

InitClockTry ==
    /\ InitBuffer /\ InitHist /\ InitLogger /\ InitSession /\ InitClient /\ InitServer
    /\ InitProducers /\ InitCollector /\ InitStorage /\ InitCodec /\ InitClock
    /\ InitFrame /\ InitLock

NextClock ==
    \/ SessionInitCalls
    \/ WriteSessions
    \/ CompleteOnces
    \/ StartAts
    \/ Elapseds
    \/ Advance
    \/ WallAdvance

SpecClock == InitClockTry /\ [][NextClock]_vars

\* C26: the closure of call_once runs at most once, SESSION keeps the
\* SesstionInfo the first call wrote, every start_at() after the
\* initialization returns its start_at, and the values elapsed() returns
\* never decrease
C26_SessionClockInitializedOnce ==
    /\ seen.runs <= 1
    /\ (seen.fixed # NoInfo) => info = seen.fixed
    /\ (INIT = "complete") => (SESSION /\ info # NoInfo)
    /\ \A i \in 1..Len(seen.start_ats) : seen.start_ats[i] = seen.fixed.start_at
    /\ \A i \in 1..(Len(seen.elapseds) - 1) : seen.elapseds[i] <= seen.elapseds[i + 1]

\* MaxSessionInits calls were made, one of them waited for the closure of
\* another thread, both clocks moved on after the initialization, and
\* start_at() and elapsed() were called MaxReads times
C26_Witness ==
    /\ seen.inits = MaxSessionInits
    /\ seen.waited > 0
    /\ seen.runs = 1
    /\ INIT = "complete"
    /\ wall > seen.fixed.start_at
    /\ Len(seen.start_ats) = MaxReads
    /\ Len(seen.elapseds) = MaxReads
    /\ seen.elapseds[1] < seen.elapseds[MaxReads]

\* C29: a connection sends one StorageRequest, when it starts; after an
\* Accept it holds the address of its session and serves until its client
\* closes; after an Error it is stopped, has no session address, and its
\* directory has no SessionActor and no writer
C29_OneRegistrationAcceptOrStop ==
    \A c \in Conns :
        /\ conns[c].requests = (IF conns[c].state = "none" THEN 0 ELSE 1)
        /\ (conns[c].answer = "Accept") =>
              /\ conns[c].session_addr = get_session(conns[c].id)
              /\ sessions[conns[c].session_addr].state # "none"
              /\ (conns[c].state = "stopped") =>
                    (conns[c].fin /\ CloseFrame \notin Range(conns[c].stream))
        /\ (conns[c].answer = "Error") =>
              /\ conns[c].state = "stopped"
              /\ conns[c].session_addr = 0
              /\ sessions[get_session(conns[c].id)] = NoSession

\* one connection was accepted and is serving, the other got an Error
C29_Witness ==
    \E c, d \in Conns :
        /\ conns[c].answer = "Accept" /\ conns[c].state = "ready"
        /\ Len(Records(Decode(sessions[conns[c].session_addr].file))) > 0
        /\ conns[d].answer = "Error"

\* C30: no record is decoded by a WsConn whose session_addr is None
C30_NoFrameBeforeRegistration ==
    \A c \in Conns : conns[c].dropped = 0

\* a client sent all its records before its WsConn had handled the
\* StorageResponse, and they all reached the session's file
C30_Witness ==
    \E c \in Conns :
        /\ conns[c].early = MaxConnRecords
        /\ conns[c].session_addr # 0
        /\ Len(Records(Decode(sessions[conns[c].session_addr].file))) = MaxConnRecords

(***************************************************************************)
(* SpecServe: the collector serving one connection whose client sends      *)
(* binary messages of several records, some with bytes that are no record, *)
(* and ends with a close frame or by dropping the socket.  The actors are  *)
(* those of SpecMulti; file operations succeed.                            *)
(***************************************************************************)
\* records the client sends whole in one run
MaxServeRecords == 3

\* the connection served
Served == 1

\* what a client may put behind the first record of a message (filler) and
\* behind the last (tail): nothing; a byte that starts no item; an item
\* that is no Record and a truncated record
Shapes == {[filler |-> <<>>, tail |-> <<>>],
           [filler |-> <<0>>, tail |-> <<>>],
           [filler |-> <<0 - 1, 0>>, tail |-> <<0 - 2, 1>>]}

\* the client sends a binary message of one or two records with a filler
\* behind the first of them and a tail behind the last
ClientSendMsg(c) ==
    /\ conns[c].state # "none"
    /\ ~conns[c].fin
    /\ \E k \in {1, 2}, shape \in Shapes :
          /\ conns[c].sentn + k <= MaxServeRecords
          /\ LET recs == [i \in 1..k |-> RecordOf(c, conns[c].sentn + i - 1)]
                 data == Enc(recs[1]) \o shape.filler
                            \o EncAll(SubSeq(recs, 2, k)) \o shape.tail
             IN  conns' = [conns EXCEPT
                    ![c].stream = Append(@, Binary(data)),
                    ![c].sentn = @ + k,
                    ![c].early = IF conns[c].answer = "none" THEN @ + k ELSE @,
                    ![c].whole = @ \o recs,
                    ![c].msgs = Append(@, [k |-> k, shape |-> shape])]
    /\ UNCHANGED <<storage_inbox, sessions, outsideMulti>>

\* the client's socket is dropped without a close frame
ClientAbort(c) ==
    /\ conns[c].state # "none"
    /\ ~conns[c].fin
    /\ conns' = [conns EXCEPT ![c].stream = Append(@, Abort), ![c].fin = TRUE]
    /\ UNCHANGED <<storage_inbox, sessions, outsideMulti>>

ServeConnect == ws_index(Served)
ServeSend == ClientSendMsg(Served)
ServeClose == ClientClose(Served)
ServeAbort == ClientAbort(Served)
ServeResponse == ConnResponseMulti(Served)
ServeFrame == ConnFrameMulti(Served)

NextServe ==
    \/ ServeConnect
    \/ ServeSend
    \/ ServeClose
    \/ ServeAbort
    \/ StorageHandleMulti
    \/ ServeResponse
    \/ ServeFrame
    \/ SessionHandles

\* the actors are scheduled by their arbiters: a message in a mailbox and
\* a frame on the stream are handled in the end
FairServe ==
    /\ WF_vars(StorageHandleMulti)
    /\ WF_vars(ServeResponse)
    /\ WF_vars(ServeFrame)
    /\ WF_vars(SessionHandles)

SpecServe == InitMulti /\ [][NextServe]_vars /\ FairServe

(***************************************************************************)
(* SpecShut: the end of one connection whose client sends messages of one  *)
(* record each and then a close frame, or drops the socket.                *)
(***************************************************************************)
ShutSend == ClientSend(Served)

NextShut ==
    \/ ServeConnect
    \/ ShutSend
    \/ ServeClose
    \/ ServeAbort
    \/ StorageHandleMulti
    \/ ServeResponse
    \/ ServeFrame
    \/ SessionHandles

SpecShut == InitMulti /\ [][NextShut]_vars /\ FairServe

\* the records among the commands of a mailbox
RecordCmds(mb) == SelectSeq(mb, LAMBDA m : m.cmd = "Record")
CmdRecords(mb) == [i \in 1..Len(RecordCmds(mb)) |-> RecordCmds(mb)[i].rec]

\* no binary message of connection c waits on its stream
NoBinaryLeft(c) == \A i \in 1..Len(conns[c].stream) : conns[c].stream[i].t # "Binary"

\* C31: once a registered connection has handled the binary messages sent
\* to it, every record its client sent whole has been dispatched, in order,
\* whatever undecodable bytes the messages held before or behind them; and
\* a connection that stopped was sent a close frame or lost its socket
C31_DecodeErrorsSkipOnlyTheBadItems ==
    \A c \in Conns :
        (conns[c].answer = "Accept") =>
            /\ NoBinaryLeft(c) =>
                  sessions[conns[c].session_addr].file
                      \o EncAll(CmdRecords(sessions[conns[c].session_addr].mb))
                  = EncAll(conns[c].whole)
            /\ (conns[c].state = "stopped") =>
                  (conns[c].fin /\ \A i \in 1..Len(conns[c].stream) :
                                       conns[c].stream[i].t = "Binary")

\* a message held a record, a byte that starts no item and a second record,
\* a later message held a third record; all three are in the file and the
\* connection serves
C31_Witness ==
    /\ conns[Served].state = "ready"
    /\ conns[Served].session_addr # 0
    /\ ~conns[Served].fin
    /\ conns[Served].dropped = 0
    /\ Len(conns[Served].whole) = MaxServeRecords
    /\ sessions[conns[Served].session_addr].file
          = Enc(conns[Served].whole[1]) \o Enc(conns[Served].whole[2])
               \o Enc(conns[Served].whole[3])
    /\ conns[Served].early = 0
    /\ conns[Served].msgs
          = <<[k |-> 2, shape |-> [filler |-> <<0>>, tail |-> <<>>]],
              [k |-> 1, shape |-> [filler |-> <<0 - 1, 0>>, tail |-> <<0 - 2, 1>>]]>>

\* the Close commands the SessionActor of directory u was sent: those in its
\* mailbox and the one it stopped on
ClosesSent(u) ==
    Len(SelectSeq(sessions[u].mb, LAMBDA m : m.cmd = "Close"))
        + (IF sessions[u].state = "stopped" THEN 1 ELSE 0)

\* the session of connection c, NoSession before it is registered
SessionOf(c) ==
    IF conns[c].session_addr = 0 THEN NoSession ELSE sessions[conns[c].session_addr]

\* C32: a registered connection has sent its session writer one Close when
\* it has stopped and none before; from then on the SessionActor stops in
\* the end and its Session is dropped; the file of a stopped SessionActor
\* does not change
C32_StopSendsOneCloseAndSessionEnds ==
    /\ [](\A c \in Conns :
            (conns[c].answer = "Accept") =>
                ClosesSent(conns[c].session_addr)
                    = (IF conns[c].state = "stopped" THEN 1 ELSE 0))
    /\ \A c \in Conns :
          (conns[c].answer = "Accept" /\ conns[c].state = "stopped")
             ~> (SessionOf(c).state = "stopped" /\ SessionOf(c).writers = 0)
    /\ [][\A u \in Uuids :
            (sessions[u].state = "stopped") => (sessions'[u] = sessions[u])]_vars

\* the connection served records and stopped, its SessionActor has stopped
\* on the Close and the file holds the records
C32_Witness ==
    /\ conns[Served].answer = "Accept"
    /\ conns[Served].state = "stopped"
    /\ sessions[conns[Served].session_addr].state = "stopped"
    /\ sessions[conns[Served].session_addr].writers = 0
    /\ sessions[conns[Served].session_addr].mb = <<>>
    /\ Len(conns[Served].whole) > 0
    /\ sessions[conns[Served].session_addr].file = EncAll(conns[Served].whole)

\* C33: the file of a stopped SessionActor holds every record its
\* connection's client sent, in order, and no Record command is left in its
\* mailbox; a registered connection whose client has closed gets there in
\* the end
C33_RecordsBeforeCloseAreWritten ==
    /\ [](\A c \in Conns :
            (conns[c].answer = "Accept" /\ SessionOf(c).state = "stopped") =>
                /\ SessionOf(c).file = EncAll(conns[c].whole)
                /\ CmdRecords(SessionOf(c).mb) = <<>>)
    /\ \A c \in Conns :
          (conns[c].answer = "Accept" /\ conns[c].fin)
             ~> (/\ SessionOf(c).state = "stopped"
                 /\ SessionOf(c).file = EncAll(conns[c].whole))

\* the Close was sent while every record of the client was still waiting in
\* the mailbox of the SessionActor
C33_Witness ==
    /\ conns[Served].state = "stopped"
    /\ Len(conns[Served].whole) = MaxConnRecords
    /\ SessionOf(Served).state = "running"
    /\ SessionOf(Served).file = <<>>
    /\ CmdRecords(SessionOf(Served).mb) = conns[Served].whole
    /\ ClosesSent(conns[Served].session_addr) = 1

(***************************************************************************)
(* SpecIoFail: SpecShut on a file system whose writes may fail.            *)
(***************************************************************************)
\* pushes that fail in one run
MaxFailures == 2

\* Handler<SessionCommand> for the SessionActor of directory u, a Record
\* whose push returns Err: the error is logged and dropped (.map_err(..)
\* .ok()); some of the record's bytes may have reached the file
SessionHandleFailed(u) ==
    /\ sessions[u].state = "running"
    /\ sessions[u].mb # <<>>
    /\ Head(sessions[u].mb).cmd = "Record"
    /\ sessions[u].failed < MaxFailures
    /\ \E k \in 0..(Len(Enc(Head(sessions[u].mb).rec)) - 1) :
          sessions' = [sessions EXCEPT
             ![u].mb = Tail(@),
             ![u].file = @ \o SubSeq(Enc(Head(sessions[u].mb).rec), 1, k),
             ![u].failed = @ + 1]
    /\ UNCHANGED <<storage_inbox, conns, outsideMulti>>

SessionHandlesFailed == \E u \in Uuids : SessionHandleFailed(u)

NextIoFail ==
    \/ ServeConnect
    \/ ShutSend
    \/ ServeClose
    \/ ServeAbort
    \/ StorageHandleMulti
    \/ ServeResponse
    \/ ServeFrame
    \/ SessionHandles
    \/ SessionHandlesFailed

SpecIoFail == InitMulti /\ [][NextIoFail]_vars

\* C34: a SessionActor whose push has failed pushes no further record, and
\* the connection that owns it is stopped once its frames are handled
C34_WriteFailureEndsSession ==
    \A c \in Conns :
        (SessionOf(c).failed > 0) =>
            /\ SessionOf(c).after_fail = 0
            /\ (conns[c].stream = <<>> /\ SessionOf(c).mb = <<>>) =>
                   conns[c].state = "stopped"

\* C35: no binary message the transport worker sent is empty
C35_NoEmptyMessageOnIdleTick ==
    \A i \in 1..Len(sent) : (sent[i].t = "Binary") => (sent[i].data # <<>>)

\* C36: at the end of an iteration that is not the last the worker goes
\* back to waiting, for a time between zero and the tick period
C36_NextWaitFlooredAtZero ==
    [][(wpc = "next" /\ ~is_finaly) =>
          (wpc' = "recv" /\ next_duration' \in 0..TickDuration)]_vars

\* C37: the storages are exchanged by the transport worker's swap() only,
\* and whenever the worker is about to call swap() the read cursor is at the
\* end of the read side
C37_SwapOnlyOnDrainedReadSide ==
    /\ []((wpc = "swap") => (read_cursor = Len(rbuf)))
    /\ [][(Len(epochs') # Len(epochs)) => (wpc = "swap" /\ wpc' = "drain")]_vars
    /\ [][(rbuf' # rbuf) => (wpc = "swap" /\ read_cursor = Len(rbuf))]_vars

\* the worker is about to call swap() after it drained a read side that held
\* bytes, while the write side holds new bytes
C37_Witness ==
    /\ wpc = "swap"
    /\ Len(rbuf) > 0
    /\ read_cursor = Len(rbuf)
    /\ Len(wbuf) > 0
    /\ ~poisoned

(***************************************************************************)
(* SpecFrame: the sizes of the binary messages between a client built with *)
(* Builder::buffer_size(size) and the collector.  Sizes are in MiB; the    *)
(* contents of the messages play no part.                                  *)
(***************************************************************************)
\* the largest size given to Builder::buffer_size
MaxBufferSize == 3
\* binary messages sent in one run
MaxFrames == 3

\* main.rs:44 Codec::new().max_size(uplog::DEFAULT_BUFFER_SIZE)
max_size == DEFAULT_BUFFER_SIZE

\* the codec of the collector on a frame of len bytes of payload: a payload
\* longer than max_size is ProtocolError::Overflow
codec_decode(len) == IF len > max_size THEN "Overflow" ELSE "Binary"

\* client.rs:173-176 Builder::buffer_size(size), before the client is built
BufferSize(size) ==
    /\ pending = 0 /\ on_wire = <<>> /\ outcomes = <<>>
    /\ swap_buffer_size # size
    /\ swap_buffer_size' = size
    /\ UNCHANGED <<pending, on_wire, outcomes, outsideFrame>>

BufferSizes == \E size \in 1..MaxBufferSize : BufferSize(size)

\* LogClient::log: a record of n MiB is written when the write side has
\* room for it (SwapBuffer::new(buffer_size) is its capacity)
FrameLog(n) ==
    /\ pending + n <= swap_buffer_size
    /\ Len(on_wire) + Len(outcomes) < MaxFrames
    /\ pending' = pending + n
    /\ UNCHANGED <<swap_buffer_size, on_wire, outcomes, outsideFrame>>

FrameLogs == \E n \in 1..MaxBufferSize : FrameLog(n)

\* client.rs:110-119 one iteration of the worker: swap, read_to_end,
\* write_message(Message::binary(&read_buf[..])): one message with all the
\* bytes of the former write side
FrameTick ==
    /\ Len(on_wire) + Len(outcomes) < MaxFrames
    /\ on_wire' = Append(on_wire, pending)
    /\ pending' = 0
    /\ UNCHANGED <<swap_buffer_size, outcomes, outsideFrame>>

\* the collector's codec reads the next frame; after an Err item the WsConn
\* has stopped (actor.rs:182-185) and reads no more
FrameDecode ==
    /\ on_wire # <<>>
    /\ \A i \in 1..Len(outcomes) : outcomes[i] = "Binary"
    /\ outcomes' = Append(outcomes, codec_decode(Head(on_wire)))
    /\ on_wire' = Tail(on_wire)
    /\ UNCHANGED <<swap_buffer_size, pending, outsideFrame>>

InitFrameTry ==
    /\ InitBuffer /\ InitHist /\ InitLogger /\ InitSession /\ InitClient /\ InitServer
    /\ InitProducers /\ InitCollector /\ InitExtra

NextFrame ==
    \/ BufferSizes
    \/ FrameLogs
    \/ FrameTick
    \/ FrameDecode

SpecFrame == InitFrameTry /\ [][NextFrame]_vars

\* C38: no binary message is longer than the client's buffer_size, and the
\* collector's codec accepts every message
C38_FramesFitTheCollector ==
    /\ \A i \in 1..Len(on_wire) : on_wire[i] <= swap_buffer_size
    /\ \A i \in 1..Len(outcomes) : outcomes[i] = "Binary"

(***************************************************************************)
(* SpecLock: the producers and the transport worker on the two Mutexes of  *)
(* one SwapBuffer, one lock operation per step.  A record takes RecordLen  *)
(* bytes of the write side.                                                *)
(***************************************************************************)
\* log calls made in one run
MaxLockCalls == 3
\* iterations of the worker in one run
MaxRounds == 2
\* the encoded length of the records logged
RecordLen == Len(Enc([id |-> 1, n |-> MaxPayload]))

\* a producer enters LogClient::log
LogCall(p) ==
    /\ lpc[p] = "idle"
    /\ calls < MaxLockCalls
    /\ calls' = calls + 1
    /\ lpc' = [lpc EXCEPT ![p] = "lock"]
    /\ UNCHANGED <<write_lock, read_lock, write_poisoned, fill, rounds, outsideLock>>

\* client.rs:262 self.writer.lock().unwrap(): the thread gets the Mutex
\* when it is free; a poisoned Mutex gives Err and unwrap panics
LogLock(p) ==
    /\ lpc[p] = "lock"
    /\ write_lock = 0
    /\ IF write_poisoned
       THEN /\ lpc' = [lpc EXCEPT ![p] = "panicked"]
            /\ UNCHANGED write_lock
       ELSE /\ lpc' = [lpc EXCEPT ![p] = "write"]
            /\ write_lock' = p
    /\ UNCHANGED <<read_lock, write_poisoned, fill, calls, rounds, outsideLock>>

\* client.rs:263 serde_cbor::to_writer(writer.deref_mut(), record).unwrap()
\* and the guard's drop: a record that does not fit makes write return Err,
\* unwrap panics and the guard poisons the Mutex as it unlocks it
LogWrite(p) ==
    /\ lpc[p] = "write"
    /\ write_lock' = 0
    /\ IF fill + RecordLen > Capacity
       THEN /\ write_poisoned' = TRUE
            /\ lpc' = [lpc EXCEPT ![p] = "panicked"]
            /\ UNCHANGED fill
       ELSE /\ fill' = fill + RecordLen
            /\ lpc' = [lpc EXCEPT ![p] = "idle"]
            /\ UNCHANGED write_poisoned
    /\ UNCHANGED <<read_lock, calls, rounds, outsideLock>>

\* client.rs:108 recv_timeout returns: the worker starts an iteration
WorkerWake ==
    /\ lpc[Worker] = "recv"
    /\ rounds < MaxRounds
    /\ rounds' = rounds + 1
    /\ lpc' = [lpc EXCEPT ![Worker] = "swap_write"]
    /\ UNCHANGED <<write_lock, read_lock, write_poisoned, fill, calls, outsideLock>>

\* buffer.rs:135-138 swap: self.write.lock().expect(..)
SwapLockWrite ==
    /\ lpc[Worker] = "swap_write"
    /\ write_lock = 0
    /\ IF write_poisoned
       THEN /\ lpc' = [lpc EXCEPT ![Worker] = "panicked"]
            /\ UNCHANGED write_lock
       ELSE /\ lpc' = [lpc EXCEPT ![Worker] = "swap_read"]
            /\ write_lock' = Worker
    /\ UNCHANGED <<read_lock, write_poisoned, fill, calls, rounds, outsideLock>>

\* buffer.rs:139-142 swap: self.read.lock().expect(..), the write guard held
SwapLockRead ==
    /\ lpc[Worker] = "swap_read"
    /\ read_lock = 0
    /\ read_lock' = Worker
    /\ lpc' = [lpc EXCEPT ![Worker] = "swapping"]
    /\ UNCHANGED <<write_lock, write_poisoned, fill, calls, rounds, outsideLock>>

\* buffer.rs:144-151 swap: the storages change sides and the guards drop
SwapUnlock ==
    /\ lpc[Worker] = "swapping"
    /\ fill' = 0
    /\ read_lock' = 0
    /\ write_lock' = 0
    /\ lpc' = [lpc EXCEPT ![Worker] = "drain_lock"]
    /\ UNCHANGED <<write_poisoned, calls, rounds, outsideLock>>

\* client.rs:112 reader.lock().unwrap()
DrainLock ==
    /\ lpc[Worker] = "drain_lock"
    /\ read_lock = 0
    /\ read_lock' = Worker
    /\ lpc' = [lpc EXCEPT ![Worker] = "drain"]
    /\ UNCHANGED <<write_lock, write_poisoned, fill, calls, rounds, outsideLock>>

\* client.rs:113-114 read_to_end and the guard's drop; the send follows
DrainUnlock ==
    /\ lpc[Worker] = "drain"
    /\ read_lock' = 0
    /\ lpc' = [lpc EXCEPT ![Worker] = "recv"]
    /\ UNCHANGED <<write_lock, write_poisoned, fill, calls, rounds, outsideLock>>

LogCalls == \E p \in Producers : LogCall(p)
LogLocks == \E p \in Producers : LogLock(p)
LogWrites == \E p \in Producers : LogWrite(p)

InitLockTry ==
    /\ InitBuffer /\ InitHist /\ InitLogger /\ InitSession /\ InitClient /\ InitServer
    /\ InitProducers /\ InitCollector /\ InitExtra

NextLock ==
    \/ LogCalls
    \/ LogLocks
    \/ LogWrites
    \/ WorkerWake
    \/ SwapLockWrite
    \/ SwapLockRead
    \/ SwapUnlock
    \/ DrainLock
    \/ DrainUnlock

\* every thread that is inside log() or inside an iteration is scheduled,
\* and a thread that finds the Mutex free again and again gets it
FairLock ==
    /\ \A p \in Producers : SF_vars(LogLock(p)) /\ WF_vars(LogWrite(p))
    /\ SF_vars(SwapLockWrite) /\ SF_vars(SwapLockRead) /\ WF_vars(SwapUnlock)
    /\ SF_vars(DrainLock) /\ WF_vars(DrainUnlock)

SpecLock == InitLockTry /\ [][NextLock]_vars /\ FairLock

\* a thread waits for a Mutex
WaitsFor(t) ==
    CASE lpc[t] \in {"lock", "swap_write"} -> write_lock
      [] lpc[t] \in {"swap_read", "drain_lock"} -> read_lock
      [] OTHER -> 0

\* C39: no thread waits for a Mutex held by a thread that waits for a
\* Mutex; every log call that was started returns and every swap() that was
\* started returns
C39_NoDeadlockAndEveryCallCompletes ==
    /\ [](\A t \in Threads : (WaitsFor(t) # 0) => (WaitsFor(WaitsFor(t)) = 0))
    /\ \A p \in Producers : (lpc[p] = "lock") ~> (lpc[p] = "idle")
    /\ (lpc[Worker] = "swap_write") ~> (lpc[Worker] = "drain_lock")

\* C40: every LogClient built, with the worker thread started for it and
\* the connection that thread opens, belongs to an init call that returned
\* Ok: a failed init call has built none
C40_FailedInitStartsNothing ==
    Len(clients) = Cardinality({i \in 1..Len(inits) : inits[i] = "Ok"})
====
